---- MODULE Spec2Model ----
(***************************************************************************)
(* Model of package wsbuilder (coderd/wsbuilder): the Builder that         *)
(* computes and inserts a new workspace build and its provisioner job      *)
(* inside a REPEATABLE READ transaction, with up to five attempts on       *)
(* serialization failures.  Callers run concurrently against one store.    *)
(***************************************************************************)
EXTENDS Integers, Sequences, FiniteSets, TLC

VARIABLES
    db,        \* the committed store
    builder,   \* builder[p]: the Builder value caller p holds (settings + cache)
    pc,        \* pc[p]: "idle" | "begin" (inside Build, before InTx) | "tx" (transaction open)
    snap,      \* snap[p]: the snapshot the open transaction of p reads from
    retries,   \* retries[p]: the loop counter of Build
    outerErr,  \* outerErr[p]: the variable err declared before the loop of Build
    authFn,    \* authFn[p]: the authFunc argument of the running Build (<<>> is nil)
    result,    \* result[p]: what the last finished Build returned
    calls,     \* calls[p]: number of Build calls p has started
    storelog,  \* storelog[p]: store operations issued by the last finished attempt of p
    faults,    \* number of store failures injected so far
    entry,     \* entry[p]: history, what held when p entered its running or last Build
    load       \* the workload of the run (see Workloads); it never changes

vars == <<db, builder, pc, snap, retries, outerErr, authFn, result, calls, storelog,
          faults, entry, load>>

-----------------------------------------------------------------------------
(* Bounds of the model *)

\* Build calls per caller
MaxCalls == 2
\* store failures (serialization failure, canceled context, other) over a run
MaxFaults == 5
Procs == {1, 2}

-----------------------------------------------------------------------------
(* Optional values: a nil pointer / NULL is <<>>, a value x is <<x>> *)

None == <<>>
Some(x) == <<x>>
IsSome(o) == o # <<>>
Val(o) == o[1]

-----------------------------------------------------------------------------
(* Errors.  kind and msg are those of the outermost error, status is the    *)
(* Status of the outermost BuildError of the Unwrap chain (0 without one),  *)
(* cause is the innermost error of the chain, which is what xerrors.As and  *)
(* xerrors.Is find.                                                         *)

NoErr == [kind |-> "nil", status |-> 0, msg |-> "", cause |-> ""]

StatusBadRequest == 400
StatusForbidden == 403
StatusNotFound == 404
StatusNotAcceptable == 406
StatusConflict == 409
StatusInternalServerError == 500

\* xerrors.New("")
NewErr == [kind |-> "error", status |-> 0, msg |-> "", cause |-> ""]

\* BuildError{Status, Message, Wrapped}; Unwrap returns Wrapped
BuildError(status, msg, wrapped) ==
    [kind |-> "BuildError", status |-> status, msg |-> msg, cause |-> wrapped.cause]

\* xerrors.Errorf(msg + ": %w", wrapped): a BuildError inside stays reachable
\* through xerrors.As, so its status is kept; wrapping nil wraps nothing
Errorf(msg, wrapped) ==
    [kind |-> "error", status |-> wrapped.status, msg |-> msg, cause |-> wrapped.cause]

\* errors of the store
PqError(code) == [kind |-> "pq", status |-> 0, msg |-> "pq", cause |-> code]
ErrNoRows == [kind |-> "sql", status |-> 0, msg |-> "no rows", cause |-> "ErrNoRows"]
ErrCanceled == [kind |-> "ctx", status |-> 0, msg |-> "context canceled", cause |-> "canceled"]

SerializationFailure == "40001"

\* a test that takes every pq error for a serialization failure
IsSerializationFailure_AnyPqError(err) == err.cause \in {SerializationFailure, "08006"}

\* a test that looks at the outermost error only, without unwrapping
IsSerializationFailure_NotUnwrapped(err) ==
    err.kind = "pq" /\ err.cause = SerializationFailure

\* a test that takes every error for a serialization failure
IsSerializationFailure_AnyError(err) == err.kind # "nil"

\* var pqe *pq.Error; xerrors.As(err, &pqe) && pqe.Code == "40001"
IsSerializationFailure(err) == err.cause = SerializationFailure

IsErrNoRows(err) == err.cause = "ErrNoRows"

-----------------------------------------------------------------------------
(* Rows that exist before any Build: one workspace of template t1, the      *)
(* template versions and their import jobs.                                 *)

Workspace == [ID |-> "w1", OwnerID |-> "owner", TemplateID |-> "t1"]

TemplateVersionIDs == {"v1", "v2", "v3", "v4", "v5", "v6", "v7", "v8"}

\* v3 belongs to another template and v4 to none (NULL); the others belong
\* to t1, the template of the workspace
TemplateVersionRow(id) ==
    [ID |-> id,
     Name |-> id,
     TemplateID |-> CASE id = "v3" -> Some("t2")
                      [] id = "v4" -> None
                      [] OTHER -> Some("t1"),
     JobID |-> <<"import", id>>]

\* the schema of a version: v2 declares a required parameter without default
TemplateVersionParameterRows(id) ==
    CASE id = "v1" -> << [Name |-> "p", DefaultValue |-> "d", Required |-> FALSE,
                          Mutable |-> TRUE, LegacyVariableName |-> "a"] >>
      [] id = "v2" -> << [Name |-> "p", DefaultValue |-> "d", Required |-> FALSE,
                          Mutable |-> TRUE, LegacyVariableName |-> "a"],
                         [Name |-> "r", DefaultValue |-> "", Required |-> TRUE,
                          Mutable |-> TRUE, LegacyVariableName |-> ""] >>
      [] OTHER -> << >>

JobRow(id, initiator, type, input, tags, started, completed, canceled, error) ==
    [ID |-> id, InitiatorID |-> initiator, OrganizationID |-> "org",
     Provisioner |-> "terraform", Type |-> type, StorageMethod |-> "file",
     FileID |-> "file1", Input |-> input, Tags |-> tags,
     StartedAt |-> started, CompletedAt |-> completed, CanceledAt |-> canceled,
     Error |-> error]

NoInput == [WorkspaceBuildID |-> None, LogLevel |-> ""]

\* the import jobs: the one of v5 is pending, of v6 running, of v7 failed, of
\* v8 canceled, every other one has completed without error; these rows
\* never change, so they are kept outside db and looked up by id
IsImportJobID(id) == Len(id) = 2

ImportJob(v) ==
    JobRow(<<"import", v>>, "admin", "template_version_import", NoInput,
           {"scope:organization"},
           v # "v5", v \notin {"v5", "v6"}, v = "v8",
           IF v = "v7" THEN "import failed" ELSE "")

FirstBuildID == <<0, 0, 0>>
FirstJobID == <<0, 0, 0, 0>>

FirstBuild ==
    [ID |-> FirstBuildID, WorkspaceID |-> Workspace.ID, TemplateVersionID |-> "v1",
     BuildNumber |-> 1, ProvisionerState |-> "s0", InitiatorID |-> "owner",
     Transition |-> "start", JobID |-> FirstJobID, Reason |-> "initiator"]

FirstJob ==
    JobRow(FirstJobID, "owner", "workspace_build",
           [WorkspaceBuildID |-> Some(FirstBuildID), LogLevel |-> ""],
           {"scope:organization"}, FALSE, FALSE, FALSE, "")

InitDB ==
    [templates |-> [t \in {"t1"} |->
                      [ID |-> "t1", ActiveVersionID |-> "v2",
                       OrganizationID |-> "org", Provisioner |-> "terraform"]],
     builds |-> << FirstBuild >>,
     jobs |-> (FirstJobID :> FirstJob),
     legacy |-> {[ID |-> <<0, 0, 0, 1>>, Name |-> "a", SourceValue |-> "old",
                  Scope |-> "workspace", ScopeID |-> Workspace.ID]},
     bparams |-> (FirstBuildID :> << [Name |-> "p", Value |-> "d"] >>)]

\* the store of a workspace that has never been built
NewWorkspaceDB ==
    [InitDB EXCEPT !.builds = << >>,
                   !.jobs = [j \in {} |-> FirstJob],
                   !.legacy = {},
                   !.bparams = [k \in {} |-> << >>]]

\* the store of a workspace whose only build predates the rich parameters: it
\* holds the legacy value a=old and no build parameter
LegacyOnlyDB == [InitDB EXCEPT !.bparams = [k \in {} |-> << >>]]

-----------------------------------------------------------------------------
(* The Builder value *)

NoVersionTarget == [active |-> FALSE, specific |-> None]
NoStateTarget == [orphan |-> FALSE, explicit |-> None]

\* New(w, t): every other field has its zero value
New(t) ==
    [trans |-> t,
     version |-> NoVersionTarget,
     state |-> NoStateTarget,
     logLevel |-> "",
     legacyParameterValues |-> << >>,
     richParameterValues |-> << >>,
     initiator |-> "",
     reason |-> "",
     template |-> None,
     templateVersion |-> None,
     templateVersionJob |-> None,
     templateVersionParameters |-> None,
     lastBuild |-> None,
     lastBuildParameters |-> None,
     lastParameterValues |-> None,
     lastBuildJob |-> None]

VersionID(b, v) == [b EXCEPT !.version = [active |-> FALSE, specific |-> Some(v)]]
\* a setter that keeps the version given before
ActiveVersion_KeepSpecific(b) == [b EXCEPT !.version.active = TRUE]
ActiveVersion(b) == [b EXCEPT !.version = [active |-> TRUE, specific |-> None]]
State(b, s) == [b EXCEPT !.state = [orphan |-> FALSE, explicit |-> Some(s)]]
Orphan(b) == [b EXCEPT !.state = [orphan |-> TRUE, explicit |-> None]]
\* a setter that starts from a fresh Builder and loses the other settings
LogLevel_FromNew(b, l) == [New(b.trans) EXCEPT !.logLevel = l]
LogLevel(b, l) == [b EXCEPT !.logLevel = l]
Initiator(b, u) == [b EXCEPT !.initiator = u]
Reason(b, r) == [b EXCEPT !.reason = r]
LegacyParameterValues(b, ps) == [b EXCEPT !.legacyParameterValues = ps]
RichParameterValues(b, ps) == [b EXCEPT !.richParameterValues = ps]
SetLastWorkspaceBuildInTx(b, build) == [b EXCEPT !.lastBuild = Some(build)]
SetLastWorkspaceBuildJobInTx(b, job) == [b EXCEPT !.lastBuildJob = Some(job)]

-----------------------------------------------------------------------------
(* Provisioner job status, derived from the timestamps and the error *)

ConvertProvisionerJobStatus(job) ==
    CASE job.CanceledAt -> "canceled"
      [] ~job.StartedAt -> "pending"
      [] ~job.CompletedAt -> "running"
      [] job.Error # "" -> "failed"
      [] OTHER -> "succeeded"

Active(status) == status \in {"pending", "running"}

\* worker tags carry the identity of the workspace owner
MutateTags(owner, tags) == tags \cup {"owner:" \o owner}

-----------------------------------------------------------------------------
(* One attempt runs on an execution record es:                              *)
(*   b     the Builder (b.store is the transaction handle: tx below)        *)
(*   tx    what the transaction sees: its snapshot plus its own writes      *)
(*   base  the snapshot taken when the transaction began                    *)
(*   cur   the committed store at the time the statements run               *)
(*   auth  the authFunc argument                                            *)
(*   ids   <<p, call, attempt>>: the source of uuid.New() in this attempt   *)
(*   f     the failure the store is going to answer, hit once it has        *)
(*   err   the error the last called function returned                      *)
(*   wb,pj the rows buildTx returns                                         *)
(*   params the names and values getParameters returns                      *)
(*   log   the store operations and authFunc calls issued                   *)

NoFault == [op |-> "none", kind |-> "none"]

FaultError(kind) ==
    CASE kind = "serialization" -> PqError(SerializationFailure)
      [] kind = "canceled" -> ErrCanceled
      [] OTHER -> PqError("08006")

NewExec(b, snapshot, committed, auth, ids, f) ==
    [b |-> b, tx |-> snapshot, base |-> snapshot, cur |-> committed, auth |-> auth,
     ids |-> ids, f |-> f, hit |-> FALSE, err |-> NoErr, wb |-> None, pj |-> None,
     params |-> << >>, log |-> << >>]

\* return err
Fail(es, e) == [es EXCEPT !.err = e]

\* a store operation is issued; the store answers the injected failure on
\* the first operation of the chosen name
Issue(es, op) ==
    LET e1 == [es EXCEPT !.log = Append(@, op)]
    IN  IF es.f.op = op /\ ~es.hit
        THEN [e1 EXCEPT !.hit = TRUE, !.err = FaultError(es.f.kind)]
        ELSE [e1 EXCEPT !.err = NoErr]

\* ORDER BY build_number DESC LIMIT 1; among equal numbers the row inserted last
LatestBuildIndex(builds) ==
    CHOOSE i \in 1..Len(builds) :
        \A j \in 1..Len(builds) :
            \/ builds[j].BuildNumber < builds[i].BuildNumber
            \/ builds[j].BuildNumber = builds[i].BuildNumber /\ j <= i

LookupJob(store, id) ==
    IF IsImportJobID(id)
    THEN IF id[2] \in TemplateVersionIDs THEN Some(ImportJob(id[2])) ELSE None
    ELSE IF id \in DOMAIN store.jobs THEN Some(store.jobs[id]) ELSE None

-----------------------------------------------------------------------------------------------------------------------------------------------------
(* The lazily filled cache.  Each getter returns the execution record with  *)
(* err set to the error it returns; on success its value is in the cache.   *)

\* if err != nil { return err }; the rest of the function is Op
Then(es, Op(_)) == IF es.err # NoErr THEN es ELSE Op(es)

\* if err != nil { return BuildError{http.StatusInternalServerError, msg, err} }
Try(es, msg, Op(_)) ==
    IF es.err # NoErr
    THEN Fail(es, BuildError(StatusInternalServerError, msg, es.err))
    ELSE Op(es)

\* if err != nil && !xerrors.Is(err, sql.ErrNoRows) { return err }
ThenRows(es, Op(_)) ==
    IF es.err # NoErr /\ ~IsErrNoRows(es.err) THEN es ELSE Op(Fail(es, NoErr))

getTemplate(es) ==
    IF IsSome(es.b.template) THEN Fail(es, NoErr)
    ELSE Then(Issue(es, "GetTemplateByID"), LAMBDA e1 :
           IF Workspace.TemplateID \notin DOMAIN e1.tx.templates
           THEN Fail(e1, ErrNoRows)
           ELSE [e1 EXCEPT !.b.template = Some(e1.tx.templates[Workspace.TemplateID])])

\* a getter that asks the store whether or not the build is in the cache
getLastBuild_AlwaysFetch(es) ==
    Then(Issue(es, "GetLatestWorkspaceBuildByWorkspaceID"), LAMBDA e1 :
      IF e1.tx.builds = << >> THEN Fail(e1, ErrNoRows)
      ELSE [e1 EXCEPT !.b.lastBuild =
                          Some(e1.tx.builds[LatestBuildIndex(e1.tx.builds)])])

getLastBuild(es) ==
    IF IsSome(es.b.lastBuild) THEN Fail(es, NoErr)
    ELSE Then(Issue(es, "GetLatestWorkspaceBuildByWorkspaceID"), LAMBDA e1 :
           IF e1.tx.builds = << >> THEN Fail(e1, ErrNoRows)
           ELSE [e1 EXCEPT !.b.lastBuild =
                               Some(e1.tx.builds[LatestBuildIndex(e1.tx.builds)])])

\* the effect of getTemplateVersionID on the cache, and the id it returns
getTemplateVersionID(es) ==
    IF IsSome(es.b.version.specific) THEN Fail(es, NoErr)
    ELSE IF es.b.version.active THEN getTemplate(es)
    ELSE getLastBuild(es)

TemplateVersionIDOf(b) ==
    IF IsSome(b.version.specific) THEN Val(b.version.specific)
    ELSE IF b.version.active THEN Val(b.template).ActiveVersionID
    ELSE Val(b.lastBuild).TemplateVersionID

getTemplateVersion(es) ==
    IF IsSome(es.b.templateVersion) THEN Fail(es, NoErr)
    ELSE Then(getTemplateVersionID(es), LAMBDA e1 :
           Then(Issue(e1, "GetTemplateVersionByID"), LAMBDA e2 :
             IF TemplateVersionIDOf(e2.b) \notin TemplateVersionIDs
             THEN Fail(e2, ErrNoRows)
             ELSE [e2 EXCEPT !.b.templateVersion =
                                 Some(TemplateVersionRow(TemplateVersionIDOf(e2.b)))]))

\* GetProvisionerJobByID answered with the job j, or with no row
GotJob(es, j, Op(_)) == IF j = None THEN Fail(es, ErrNoRows) ELSE Op(j)

getTemplateVersionJob(es) ==
    IF IsSome(es.b.templateVersionJob) THEN Fail(es, NoErr)
    ELSE Then(getTemplateVersion(es), LAMBDA e1 :
           Then(Issue(e1, "GetProvisionerJobByID"), LAMBDA e2 :
             GotJob(e2, LookupJob(e2.tx, Val(e2.b.templateVersion).JobID), LAMBDA j :
               [e2 EXCEPT !.b.templateVersionJob = j])))

\* a getter that asks the store whether or not the job is in the cache
getLastBuildJob_AlwaysFetch(es) ==
    Then(getLastBuild(es), LAMBDA e1 :
      Then(Issue(e1, "GetProvisionerJobByID"), LAMBDA e2 :
        GotJob(e2, LookupJob(e2.tx, Val(e2.b.lastBuild).JobID), LAMBDA j :
          [e2 EXCEPT !.b.lastBuildJob = j])))

getLastBuildJob(es) ==
    IF IsSome(es.b.lastBuildJob) THEN Fail(es, NoErr)
    ELSE Then(getLastBuild(es), LAMBDA e1 :
           Then(Issue(e1, "GetProvisionerJobByID"), LAMBDA e2 :
             GotJob(e2, LookupJob(e2.tx, Val(e2.b.lastBuild).JobID), LAMBDA j :
               [e2 EXCEPT !.b.lastBuildJob = j])))

getBuildNumber(es) == getLastBuild(es)

BuildNumberOf(b) == Val(b.lastBuild).BuildNumber + 1

getState(es) ==
    IF es.b.state.orphan THEN Fail(es, NoErr)
    ELSE IF IsSome(es.b.state.explicit) THEN Fail(es, NoErr)
    ELSE getLastBuild(es)

\* a nil []byte is the empty string
StateOf(b) ==
    IF b.state.orphan THEN ""
    ELSE IF IsSome(b.state.explicit) THEN Val(b.state.explicit)
    ELSE Val(b.lastBuild).ProvisionerState

\* the rows are a sequence; sql.ErrNoRows is tolerated
getTemplateVersionParameters(es) ==
    IF IsSome(es.b.templateVersionParameters) THEN Fail(es, NoErr)
    ELSE Then(getTemplateVersionID(es), LAMBDA e1 :
           ThenRows(Issue(e1, "GetTemplateVersionParameters"), LAMBDA e2 :
             [e2 EXCEPT !.b.templateVersionParameters =
                            Some(TemplateVersionParameterRows(TemplateVersionIDOf(e2.b)))]))

getLastParameterValues(es) ==
    IF IsSome(es.b.lastParameterValues) THEN Fail(es, NoErr)
    ELSE ThenRows(Issue(es, "ParameterValues"), LAMBDA e1 :
           [e1 EXCEPT !.b.lastParameterValues =
                          Some({v \in e1.tx.legacy : v.ScopeID = Workspace.ID})])

\* the result is returned but never stored in b.lastBuildParameters
getLastBuildParameters(es) ==
    IF IsSome(es.b.lastBuildParameters) THEN Fail(es, NoErr)
    ELSE Then(getLastBuild(es), LAMBDA e1 :
           ThenRows(Issue(e1, "GetWorkspaceBuildParameters"), LAMBDA e2 : e2))

LastBuildParametersOf(es) ==
    IF IsSome(es.b.lastBuildParameters) THEN Val(es.b.lastBuildParameters)
    ELSE IF Val(es.b.lastBuild).ID \in DOMAIN es.tx.bparams
         THEN es.tx.bparams[Val(es.b.lastBuild).ID]
         ELSE << >>

-----------------------------------------------------------------------------
(* Authorization pre-check and the three validations *)

\* authFunc(action, object): the authorizer's answers, a pure function
AuthAllows(auth, action, object) ==
    CASE object = "workspace" /\ action = "delete" -> Val(auth).wsDelete
      [] object = "workspace" /\ action = "update" -> Val(auth).wsUpdate
      [] OTHER -> Val(auth).tplUpdate

Asked(es, action, object) ==
    [es EXCEPT !.log = Append(@, "authFunc:" \o action \o ":" \o object)]

\* if cond && !authFunc(action, object) { return BuildError{status, msg} }
Require(es, cond, action, object, status, msg, Op(_)) ==
    IF ~cond THEN Op(es)
    ELSE IF ~AuthAllows(es.auth, action, object)
    THEN Fail(Asked(es, action, object), BuildError(status, msg, NewErr))
    ELSE Op(Asked(es, action, object))

\* a condition that forgets the orphaned state
CustomState_ExplicitOnly(b) == IsSome(b.state.explicit)

\* b.state.explicit != nil || b.state.orphan
CustomState(b) == IsSome(b.state.explicit) \/ b.state.orphan

\* a switch that maps every transition to the update action
WorkspaceAction_AlwaysUpdate(trans) == "update"

\* the action asked on the workspace: delete for a delete transition, update
\* for start and stop
WorkspaceAction(trans) == IF trans = "delete" THEN "delete" ELSE "update"

\* a pre-check that asks about the log level before the custom state
authorize_LogLevelFirst(es) ==
    IF es.b.trans \notin {"delete", "start", "stop"}
    THEN Fail(es, BuildError(StatusBadRequest, "Transition not supported.", NewErr))
    ELSE
    Require(es, TRUE, WorkspaceAction(es.b.trans), "workspace",
            StatusNotFound, "Resource not found", LAMBDA e1 :
      Try(getTemplate(e1), "failed to fetch template", LAMBDA e2 :
        Require(e2, e2.b.logLevel # "", "update", "template", StatusBadRequest,
                "Workspace builds with a custom log level are restricted to template authors only.",
                LAMBDA e3 :
          Require(e3, CustomState(e3.b), "update", "template",
                  StatusForbidden, "Only template managers may provide custom state",
                  LAMBDA e4 : Fail(e4, NoErr)))))

authorize(es) ==
    IF es.b.trans \notin {"delete", "start", "stop"}
    THEN Fail(es, BuildError(StatusBadRequest, "Transition not supported.", NewErr))
    ELSE
    Require(es, TRUE, WorkspaceAction(es.b.trans), "workspace",
            StatusNotFound, "Resource not found", LAMBDA e1 :
      Try(getTemplate(e1), "failed to fetch template", LAMBDA e2 :
        Require(e2, CustomState(e2.b), "update", "template",
                StatusForbidden, "Only template managers may provide custom state",
                LAMBDA e3 :
          Require(e3, e3.b.logLevel # "", "update", "template", StatusBadRequest,
                  "Workspace builds with a custom log level are restricted to template authors only.",
                  LAMBDA e4 : Fail(e4, NoErr)))))

checkTemplateVersionMatchesTemplate(es) ==
    Try(getTemplate(es), "failed to fetch template", LAMBDA e1 :
      Try(getTemplateVersion(e1), "failed to fetch template version", LAMBDA e2 :
        IF ~IsSome(Val(e2.b.templateVersion).TemplateID)
           \/ Val(Val(e2.b.templateVersion).TemplateID) # Val(e2.b.template).ID
        THEN Fail(e2, BuildError(StatusBadRequest,
                      "template version doesn't match template", NewErr))
        ELSE Fail(e2, NoErr)))

\* a switch that answers a failed import with the forbidden classification
RejectImportStatus_FailedForbidden(es, templateVersionJobStatus) ==
    CASE templateVersionJobStatus \in {"pending", "running"} ->
           Fail(es, BuildError(StatusNotAcceptable,
                "The provided template version is " \o templateVersionJobStatus
                    \o ". Wait for it to complete importing!", NewErr))
      [] templateVersionJobStatus = "failed" ->
           Fail(es, BuildError(StatusForbidden,
                "The provided template version has failed to import. You cannot build workspaces with it!",
                NewErr))
      [] templateVersionJobStatus = "canceled" ->
           Fail(es, BuildError(StatusBadRequest,
                "The provided template version was canceled during import. You cannot build workspaces with it!",
                NewErr))
      [] OTHER -> Fail(es, NoErr)

\* a switch that has no case for a canceled import
RejectImportStatus_NoCanceled(es, templateVersionJobStatus) ==
    CASE templateVersionJobStatus \in {"pending", "running"} ->
           Fail(es, BuildError(StatusNotAcceptable,
                "The provided template version is " \o templateVersionJobStatus
                    \o ". Wait for it to complete importing!", NewErr))
      [] templateVersionJobStatus = "failed" ->
           Fail(es, BuildError(StatusBadRequest,
                "The provided template version has failed to import. You cannot build workspaces with it!",
                NewErr))
      [] OTHER -> Fail(es, NoErr)

\* the switch over the status of the import job
RejectImportStatus(es, templateVersionJobStatus) ==
    CASE templateVersionJobStatus \in {"pending", "running"} ->
           Fail(es, BuildError(StatusNotAcceptable,
                "The provided template version is " \o templateVersionJobStatus
                    \o ". Wait for it to complete importing!", NewErr))
      [] templateVersionJobStatus = "failed" ->
           Fail(es, BuildError(StatusBadRequest,
                "The provided template version has failed to import. You cannot build workspaces with it!",
                NewErr))
      [] templateVersionJobStatus = "canceled" ->
           Fail(es, BuildError(StatusBadRequest,
                "The provided template version was canceled during import. You cannot build workspaces with it!",
                NewErr))
      [] OTHER -> Fail(es, NoErr)

checkTemplateJobStatus(es) ==
    Try(getTemplateVersion(es), "failed to fetch template version", LAMBDA e1 :
      Try(getTemplateVersionJob(e1), "failed to fetch template version job", LAMBDA e2 :
        RejectImportStatus(e2, ConvertProvisionerJobStatus(Val(e2.b.templateVersionJob)))))

\* a check that fetches the job of the last build and accepts every status
checkRunningBuild_AnyStatus(es) ==
    Try(getLastBuildJob(es), "failed to fetch prior build", LAMBDA e1 : Fail(e1, NoErr))

checkRunningBuild(es) ==
    Try(getLastBuildJob(es), "failed to fetch prior build", LAMBDA e1 :
      IF Active(ConvertProvisionerJobStatus(Val(e1.b.lastBuildJob)))
      THEN Fail(e1, BuildError(StatusConflict, "A workspace build is already active.", NewErr))
      ELSE Fail(e1, NoErr))

-----
(* The parameter resolver (codersdk.ParameterResolver) *)

FirstNamed(rows, name) ==
    IF \E i \in 1..Len(rows) : rows[i].Name = name
    THEN Some(rows[CHOOSE i \in 1..Len(rows) :
                     rows[i].Name = name /\ \A j \in 1..(i - 1) : rows[j].Name # name])
    ELSE None

\* the previous value: the rich value of the last build, else the legacy
\* value the schema entry was migrated from
findLastValue(tvp, rich, legacy) ==
    LET r == FirstNamed(rich, tvp.Name)
    IN  IF IsSome(r) THEN Some(Val(r).Value)
        ELSE IF tvp.LegacyVariableName # ""
                /\ \E v \in legacy : v.Name = tvp.LegacyVariableName
        THEN Some((CHOOSE v \in legacy : v.Name = tvp.LegacyVariableName).SourceValue)
        ELSE None

\* [value, ok]: the override, else the previous value, else the default
ValidateResolve(tvp, rich, legacy, override) ==
    LET prev == findLastValue(tvp, rich, legacy)
    IN  IF ~tvp.Mutable /\ IsSome(override) /\ IsSome(prev)
        THEN [value |-> "", ok |-> FALSE]
        ELSE IF tvp.Required /\ ~IsSome(override) /\ ~IsSome(prev)
        THEN [value |-> "", ok |-> FALSE]
        ELSE IF IsSome(override) THEN [value |-> Val(override).Value, ok |-> TRUE]
        ELSE IF IsSome(prev) THEN [value |-> Val(prev), ok |-> TRUE]
        ELSE [value |-> tvp.DefaultValue, ok |-> TRUE]

findNewBuildParameterValue(b, name) == FirstNamed(b.richParameterValues, name)

RECURSIVE ResolveAll(_, _, _, _, _)
\* the loop of getParameters: the resolved pairs so far, or the first failure
ResolveAll(b, schema, rich, legacy, i) ==
    IF i > Len(schema) THEN [params |-> << >>, ok |-> TRUE]
    ELSE LET r == ValidateResolve(schema[i], rich, legacy,
                                  findNewBuildParameterValue(b, schema[i].Name))
         IN  IF ~r.ok THEN [params |-> << >>, ok |-> FALSE]
             ELSE LET rest == ResolveAll(b, schema, rich, legacy, i + 1)
                  IN  IF ~rest.ok THEN rest
                      ELSE [params |-> << [Name |-> schema[i].Name, Value |-> r.value] >>
                                          \o rest.params,
                            ok |-> TRUE]

\* the outcome of the loop: the first failure is a bad request
Resolved(es, r) ==
    IF ~r.ok
    THEN Fail(es, BuildError(StatusBadRequest, "parameter resolution failed", NewErr))
    ELSE [es EXCEPT !.params = r.params, !.err = NoErr]

\* a resolution that reads the legacy values anew, after the overrides were
\* written
getParameters_RereadLegacy(es) ==
    Try(getTemplateVersionParameters(es), "failed to fetch template version parameters",
        LAMBDA e1 :
      Try(getLastBuildParameters(e1), "failed to fetch last build parameters", LAMBDA e2 :
        Try(getLastParameterValues(e2), "failed to fetch last parameter values", LAMBDA e3 :
          Resolved(e3, ResolveAll(e3.b, Val(e3.b.templateVersionParameters),
                                  LastBuildParametersOf(e3),
                                  {v \in e3.tx.legacy : v.ScopeID = Workspace.ID}, 1)))))

getParameters(es) ==
    Try(getTemplateVersionParameters(es), "failed to fetch template version parameters",
        LAMBDA e1 :
      Try(getLastBuildParameters(e1), "failed to fetch last build parameters", LAMBDA e2 :
        Try(getLastParameterValues(e2), "failed to fetch last parameter values", LAMBDA e3 :
          Resolved(e3, ResolveAll(e3.b, Val(e3.b.templateVersionParameters),
                                  LastBuildParametersOf(e3),
                                  Val(e3.b.lastParameterValues), 1)))))

-----------------------------------------------------------------------------
(* buildTx *)

BuildIDOf(ids) == ids
JobIDOf(ids) == ids \o <<0>>
LegacyIDOf(ids, i) == ids \o <<i>>

RECURSIVE DeleteEach(_, _)
\* the inner loop over the legacy values read before: delete the ones that
\* carry the name of the override.  A row of the snapshot that a transaction
\* committed since has removed makes the statement fail with a
\* serialization failure; a row the snapshot does not hold deletes nothing.
DeleteEach(es, rows) ==
    IF rows = {} THEN Fail(es, NoErr)
    ELSE LET exists == CHOOSE x \in rows : TRUE
             e1 == Issue(es, "DeleteParameterValueByID")
             gone == exists \in es.base.legacy /\ exists \notin es.cur.legacy
             e2 == IF e1.err # NoErr THEN e1
                   ELSE IF gone THEN Fail(e1, PqError(SerializationFailure))
                   ELSE [e1 EXCEPT !.tx.legacy = @ \ {exists}]
         IN  IF e2.err # NoErr /\ ~IsErrNoRows(e2.err)
             THEN Fail(e2, BuildError(StatusInternalServerError,
                           "Failed to delete old param", e2.err))
             ELSE DeleteEach(Fail(e2, NoErr), rows \ {exists})

RECURSIVE WriteLegacy(_, _, _)
\* Write/Update any new params
WriteLegacy(es, legacyParameters, i) ==
    IF i > Len(es.b.legacyParameterValues) THEN Fail(es, NoErr)
    ELSE LET param == es.b.legacyParameterValues[i]
             e1 == DeleteEach(es, {x \in legacyParameters : x.Name = param.Name})
         IN  IF e1.err # NoErr THEN e1
             ELSE LET e2 == Issue(e1, "InsertParameterValue")
                      row == [ID |-> LegacyIDOf(es.ids, i), Name |-> param.Name,
                              SourceValue |-> param.SourceValue,
                              Scope |-> "workspace", ScopeID |-> Workspace.ID]
                  IN  IF e2.err # NoErr
                      THEN Fail(e2, BuildError(StatusInternalServerError,
                                    "insert parameter value", e2.err))
                      ELSE WriteLegacy([e2 EXCEPT !.tx.legacy = @ \cup {row}],
                                       legacyParameters, i + 1)

\* lines 228-289: the remaining reads, the defaults and the legacy overrides
buildTxLegacy(es) ==
    Try(getTemplate(es), "failed to fetch template", LAMBDA e1 :
      Try(getTemplateVersionJob(e1), "failed to fetch template version job", LAMBDA e2 :
        Try(getLastParameterValues(e2), "failed to fetch previous legacy parameters.",
            LAMBDA e3 :
          WriteLegacy([e3 EXCEPT
                         !.b.initiator = IF @ = "" THEN Workspace.OwnerID ELSE @,
                         !.b.reason = IF @ = "" THEN "initiator" ELSE @],
                      Val(e3.b.lastParameterValues), 1))))

\* a job row whose input names the last build instead of the new one
InsertProvisionerJobParams_LastBuildInput(es) ==
    [JobRow(JobIDOf(es.ids), es.b.initiator, "workspace_build",
            [WorkspaceBuildID |-> Some(Val(es.b.lastBuild).ID), LogLevel |-> es.b.logLevel],
            MutateTags(Workspace.OwnerID, Val(es.b.templateVersionJob).Tags),
            FALSE, FALSE, FALSE, "")
       EXCEPT !.OrganizationID = Val(es.b.template).OrganizationID,
              !.Provisioner = Val(es.b.template).Provisioner,
              !.StorageMethod = Val(es.b.templateVersionJob).StorageMethod,
              !.FileID = Val(es.b.templateVersionJob).FileID]

\* database.InsertProvisionerJobParams{...}, the row of the new job
InsertProvisionerJobParams(es) ==
    [JobRow(JobIDOf(es.ids), es.b.initiator, "workspace_build",
            [WorkspaceBuildID |-> Some(BuildIDOf(es.ids)), LogLevel |-> es.b.logLevel],
            MutateTags(Workspace.OwnerID, Val(es.b.templateVersionJob).Tags),
            FALSE, FALSE, FALSE, "")
       EXCEPT !.OrganizationID = Val(es.b.template).OrganizationID,
              !.Provisioner = Val(es.b.template).Provisioner,
              !.StorageMethod = Val(es.b.templateVersionJob).StorageMethod,
              !.FileID = Val(es.b.templateVersionJob).FileID]

\* the store has inserted the row and returns it
InsertedJob(es, job) == [es EXCEPT !.tx.jobs = (job.ID :> job) @@ @, !.pj = Some(job)]

\* lines 291-324
buildTxJob(es) ==
    Try(Issue(es, "InsertProvisionerJob"), "insert provisioner job", LAMBDA e1 :
      InsertedJob(e1, InsertProvisionerJobParams(e1)))

\* a build row that refers to the job of the last build instead of the new one
InsertWorkspaceBuildParams_OldJob(es) ==
    [ID |-> BuildIDOf(es.ids),
     WorkspaceID |-> Workspace.ID,
     TemplateVersionID |-> TemplateVersionIDOf(es.b),
     BuildNumber |-> BuildNumberOf(es.b),
     ProvisionerState |-> StateOf(es.b),
     InitiatorID |-> es.b.initiator,
     Transition |-> es.b.trans,
     JobID |-> Val(es.b.lastBuild).JobID,
     Reason |-> es.b.reason]

\* a build row that names the workspace's owner whoever initiated the build
InsertWorkspaceBuildParams_OwnerInitiator(es) ==
    [ID |-> BuildIDOf(es.ids),
     WorkspaceID |-> Workspace.ID,
     TemplateVersionID |-> TemplateVersionIDOf(es.b),
     BuildNumber |-> BuildNumberOf(es.b),
     ProvisionerState |-> StateOf(es.b),
     InitiatorID |-> Workspace.OwnerID,
     Transition |-> es.b.trans,
     JobID |-> Val(es.pj).ID,
     Reason |-> es.b.reason]

\* database.InsertWorkspaceBuildParams{...}, the row of the new build
InsertWorkspaceBuildParams(es) ==
    [ID |-> BuildIDOf(es.ids),
     WorkspaceID |-> Workspace.ID,
     TemplateVersionID |-> TemplateVersionIDOf(es.b),
     BuildNumber |-> BuildNumberOf(es.b),
     ProvisionerState |-> StateOf(es.b),
     InitiatorID |-> es.b.initiator,
     Transition |-> es.b.trans,
     JobID |-> Val(es.pj).ID,
     Reason |-> es.b.reason]

\* the store has inserted the row and returns it
InsertedBuild(es, build) == [es EXCEPT !.tx.builds = Append(@, build), !.wb = Some(build)]

\* lines 326-353
buildTxBuild(es) ==
    Try(getTemplateVersionID(es), "compute template version ID", LAMBDA e1 :
      Try(getBuildNumber(e1), "compute build number", LAMBDA e2 :
        Try(getState(e2), "compute build state", LAMBDA e3 :
          Try(Issue(e3, "InsertWorkspaceBuild"), "insert workspace build", LAMBDA e4 :
            InsertedBuild(e4, InsertWorkspaceBuildParams(e4))))))

\* lines 355-369
buildTxParameters(es) ==
    Then(getParameters(es), LAMBDA e1 :
      Try(Issue(e1, "InsertWorkspaceBuildParameters"), "insert workspace build parameters",
          LAMBDA e2 : [e2 EXCEPT !.tx.bparams = (Val(e2.wb).ID :> e2.params) @@ @]))

buildTxAuthorize(es) == IF IsSome(es.auth) THEN authorize(es) ELSE es

\* return nil, nil, err
Returns(es) == IF es.err # NoErr THEN [es EXCEPT !.wb = None, !.pj = None] ELSE es

buildTx(es) ==
    Returns(
      Then(Then(Then(Then(Then(Then(Then(buildTxAuthorize(es),
           checkTemplateVersionMatchesTemplate),
           checkTemplateJobStatus),
           checkRunningBuild),
           buildTxLegacy),
           buildTxJob),
           buildTxBuild),
           buildTxParameters))

-----------------------------------------------------------------------------
(* The transaction wrapper of the store *)

\* the committed store after the writes of the transaction are applied: the
\* rows it inserted are added, the rows of its snapshot it deleted are removed
CommitTx(store, es) ==
    [store EXCEPT
       !.jobs = [j \in (DOMAIN es.tx.jobs \ DOMAIN es.base.jobs) |-> es.tx.jobs[j]] @@ @,
       !.builds = @ \o SubSeq(es.tx.builds, Len(es.base.builds) + 1, Len(es.tx.builds)),
       !.legacy = (@ \ (es.base.legacy \ es.tx.legacy)) \cup (es.tx.legacy \ es.base.legacy),
       !.bparams = [k \in (DOMAIN es.tx.bparams \ DOMAIN es.base.bparams) |-> es.tx.bparams[k]] @@ @]

\* InTx(fn, opts): the function's error rolls the transaction back and is
\* returned wrapped; otherwise the commit is attempted and its error returned
CommitFails(es) == es.err = NoErr /\ es.f.op = "Commit"

InTx(es) ==
    IF es.err # NoErr THEN Errorf("execute transaction", es.err)
    ELSE IF CommitFails(es) THEN Errorf("commit transaction", FaultError(es.f.kind))
    ELSE NoErr

-----------------------------------------------------------------------------
(* Inputs of the model *)

MaxAttempts == 5

AllowAll == Some([wsUpdate |-> TRUE, wsDelete |-> TRUE, tplUpdate |-> TRUE])
DenyWorkspace == Some([wsUpdate |-> FALSE, wsDelete |-> FALSE, tplUpdate |-> TRUE])
DenyTemplate == Some([wsUpdate |-> TRUE, wsDelete |-> TRUE, tplUpdate |-> FALSE])
DenyDelete == Some([wsUpdate |-> TRUE, wsDelete |-> FALSE, tplUpdate |-> TRUE])
DenyAll == Some([wsUpdate |-> FALSE, wsDelete |-> FALSE, tplUpdate |-> FALSE])

\* the authFunc arguments the callers pass; None is nil
AuthFuncs == {None, AllowAll, DenyWorkspace, DenyTemplate, DenyDelete, DenyAll}

LegacyOverride(v) == [Name |-> "a", SourceValue |-> v]

\* Builders with the default selectors, with and without legacy overrides
PlainConfigs ==
    {New("start"),
     LegacyParameterValues(New("stop"), << LegacyOverride("n1") >>)}

\* a Builder with the default selectors, and one that sets the state and
\* overrides the parameter p
StateConfigs ==
    {New("start"),
     RichParameterValues(State(New("stop"), "s1"), << [Name |-> "p", Value |-> "x"] >>)}

\* Builders that exercise every option
AllConfigs ==
    PlainConfigs \cup
    {LegacyParameterValues(New("start"), << LegacyOverride("n1"), LegacyOverride("n2") >>),
     VersionID(New("start"), "v3"),
     VersionID(New("stop"), "v4"),
     ActiveVersion(New("start")),
     RichParameterValues(ActiveVersion(New("start")), << [Name |-> "r", Value |-> "x"] >>),
     RichParameterValues(ActiveVersion(New("start")),
                         << [Name |-> "p", Value |-> "x"], [Name |-> "p", Value |-> "y"],
                            [Name |-> "zz", Value |-> "q"], [Name |-> "r", Value |-> "x"] >>),
     Orphan(New("delete")),
     ActiveVersion(VersionID(RichParameterValues(New("stop"), << [Name |-> "r", Value |-> "y"] >>),
                             "v3")),
     VersionID(ActiveVersion(New("stop")), "v1"),
     Orphan(State(New("stop"), "s1")),
     State(Orphan(New("start")), "s2"),
     LogLevel(State(New("stop"), "s1"), "debug"),
     LogLevel(New("start"), "debug"),
     Reason(Initiator(New("start"), "u1"), "autostart"),
     New("bogus")}
    \cup {VersionID(New("start"), v) : v \in {"v5", "v6", "v7", "v8"}}

\* Builders for the first build of a workspace: the default selectors, a
\* given version, and the active version with a value for its parameter r
FirstConfigs ==
    {New("start"),
     VersionID(New("start"), "v1"),
     RichParameterValues(ActiveVersion(New("start")), << [Name |-> "r", Value |-> "x"] >>)}

\* the versions a caller passes to VersionID when it derives a Builder
DerivedVersions == {"v2", "v3", "v5"}

\* the failures the store may answer: which operation, and how
SerializationFaults ==
    [op : {"GetTemplateByID", "InsertProvisionerJob", "Commit"}, kind : {"serialization"}]

\* the operations buildTx issues on the store
StoreOps ==
    {"GetTemplateByID", "GetTemplateVersionByID", "GetProvisionerJobByID",
     "GetLatestWorkspaceBuildByWorkspaceID", "ParameterValues",
     "DeleteParameterValueByID", "InsertParameterValue", "InsertProvisionerJob",
     "InsertWorkspaceBuild", "GetTemplateVersionParameters",
     "GetWorkspaceBuildParameters", "InsertWorkspaceBuildParameters"}

HardFaults ==
    [op : StoreOps, kind : {"other"}]
    \cup {[op |-> "InsertWorkspaceBuildParameters", kind |-> "canceled"],
          [op |-> "Commit", kind |-> "canceled"]}

Faults == {NoFault} \cup SerializationFaults \cup HardFaults

\* the error of a job a provisioner daemon completes: none, or a failure
JobErrors == {"", "boom"}

\* What a run exercises: the callers that call Build, the Builders and
\* authFuncs they use, how often a caller calls Build, whether it reuses an
\* executed Builder, the failures the store answers (how many, which, and
\* to which callers), and the errors the provisioner daemons report.
Workloads ==
    { \* one caller, one Build, every configuration and every authFunc
      [callers |-> {1}, configs |-> AllConfigs, auths |-> AuthFuncs,
       calls |-> 1, reuse |-> FALSE,
       faults |-> 1, faultset |-> Faults, faulty |-> {1}, jobErrors |-> JobErrors, db |-> InitDB, seeded |-> FALSE],
      \* one caller that executes a Builder and then reuses it or derives from it
      [callers |-> {1}, configs |-> PlainConfigs, auths |-> {None, AllowAll},
       calls |-> MaxCalls, reuse |-> TRUE,
       faults |-> 1, faultset |-> Faults, faulty |-> {1}, jobErrors |-> JobErrors, db |-> InitDB, seeded |-> FALSE],
      \* two concurrent callers, the store answering caller 1 up to MaxFaults
      \* serialization failures
      [callers |-> {1, 2}, configs |-> PlainConfigs, auths |-> {None},
       calls |-> 1, reuse |-> FALSE,
       faults |-> MaxFaults, faultset |-> {NoFault} \cup SerializationFaults,
       faulty |-> {1}, jobErrors |-> {""}, db |-> InitDB, seeded |-> FALSE],
      \* two concurrent callers, one of which sets the state and overrides a
      \* parameter, the store answering caller 1 one serialization failure
      [callers |-> {1, 2}, configs |-> StateConfigs, auths |-> {None},
       calls |-> 1, reuse |-> FALSE,
       faults |-> 1,
       faultset |-> {NoFault, [op |-> "InsertProvisionerJob", kind |-> "serialization"]},
       faulty |-> {1}, jobErrors |-> {""}, db |-> InitDB, seeded |-> FALSE],
      \* one caller, one Build of a workspace that has no build yet
      [callers |-> {1}, configs |-> FirstConfigs, auths |-> {None, AllowAll},
       calls |-> 1, reuse |-> FALSE,
       faults |-> 0, faultset |-> {NoFault}, faulty |-> {}, jobErrors |-> {""},
       db |-> NewWorkspaceDB, seeded |-> FALSE],
      \* one caller, one Build on a Builder seeded with the last build, and
      \* with its job or not, as the store holds them when the caller seeds
      [callers |-> {1}, configs |-> PlainConfigs, auths |-> {None, AllowAll},
       calls |-> 1, reuse |-> FALSE,
       faults |-> 0, faultset |-> {NoFault}, faulty |-> {}, jobErrors |-> JobErrors,
       db |-> InitDB, seeded |-> TRUE],
      \* one caller, one Build of a workspace whose parameter p has a legacy
      \* value only, the store answering one serialization failure
      [callers |-> {1}, configs |-> PlainConfigs, auths |-> {None},
       calls |-> 1, reuse |-> FALSE,
       faults |-> 1,
       faultset |-> {NoFault, [op |-> "InsertProvisionerJob", kind |-> "serialization"]},
       faulty |-> {1}, jobErrors |-> {""}, db |-> LegacyOnlyDB, seeded |-> FALSE] }

\* The workload of the runs in which the callers are scheduled fairly: one
\* caller that builds, reuses, derives and seeds, the store answering up to
\* MaxFaults failures, serialization failures and another
LiveWorkloads ==
    { [callers |-> {1}, configs |-> PlainConfigs, auths |-> {None},
       calls |-> MaxCalls, reuse |-> TRUE,
       faults |-> MaxFaults,
       faultset |-> {NoFault,
                     [op |-> "InsertProvisionerJob", kind |-> "serialization"],
                     [op |-> "Commit", kind |-> "serialization"],
                     [op |-> "GetTemplateByID", kind |-> "other"]},
       faulty |-> {1}, jobErrors |-> {""}, db |-> InitDB, seeded |-> TRUE] }

NoResult == [returned |-> FALSE, build |-> None, job |-> None, err |-> NoErr]
\* a return that hands over the build without its job
Returned_NoJob(build, job, err) ==
    [returned |-> TRUE, build |-> build, job |-> None, err |-> err]
Returned(build, job, err) == [returned |-> TRUE, build |-> build, job |-> job, err |-> err]

\* the job of the workspace's latest build is neither pending nor running
LastJobDone(store) ==
    \/ store.builds = << >>
    \/ LET last == store.builds[LatestBuildIndex(store.builds)]
       IN  last.JobID \in DOMAIN store.jobs
           => ~Active(ConvertProvisionerJobStatus(store.jobs[last.JobID]))

NoEntry == [peers |-> {}, jobDone |-> FALSE]

-----------------------------------------------------------------------------
(* Actions *)

\* the state before any Build, for a run of one of the workloads ws
Start(ws) ==
    /\ load \in ws
    /\ db = load.db
    /\ builder = [p \in Procs |-> New("start")]
    /\ pc = [p \in Procs |-> "idle"]
    /\ snap = [p \in Procs |-> InitDB]
    /\ retries = [p \in Procs |-> 0]
    /\ outerErr = [p \in Procs |-> NoErr]
    /\ authFn = [p \in Procs |-> None]
    /\ result = [p \in Procs |-> NoResult]
    /\ calls = [p \in Procs |-> 0]
    /\ storelog = [p \in Procs |-> << >>]
    /\ faults = 0
    /\ entry = [p \in Procs |-> NoEntry]

Init == Start(Workloads)

\* Build is entered: b.ctx = ctx; var err error; retries := 0
Enter(p, b, auth) ==
    /\ pc[p] = "idle"
    /\ p \in load.callers
    /\ calls[p] < load.calls
    /\ builder' = [builder EXCEPT ![p] = b]
    /\ authFn' = [authFn EXCEPT ![p] = auth]
    /\ pc' = [pc EXCEPT ![p] = "begin"]
    /\ retries' = [retries EXCEPT ![p] = 0]
    /\ outerErr' = [outerErr EXCEPT ![p] = NoErr]
    /\ result' = [result EXCEPT ![p] = NoResult]
    /\ calls' = [calls EXCEPT ![p] = @ + 1]
    /\ storelog' = [storelog EXCEPT ![p] = << >>]
    /\ entry' = [entry EXCEPT ![p] =
                    [peers |-> {q \in Procs \ {p} : pc[q] # "idle"},
                     jobDone |-> LastJobDone(db)]]
    /\ UNCHANGED <<db, snap, faults, load>>

\* a caller configures a new Builder and calls Build on it
BuildNew(p) ==
    \E b \in load.configs, auth \in load.auths : Enter(p, b, auth)

\* a caller calls Build again on the Builder it has already executed
BuildAgain(p) ==
    /\ calls[p] > 0 /\ load.reuse
    /\ \E auth \in load.auths : Enter(p, builder[p], auth)

\* a caller derives a Builder from the executed one and calls Build on it
BuildDerived(p) ==
    /\ calls[p] > 0 /\ load.reuse
    /\ \E auth \in load.auths :
         \/ \E v \in DerivedVersions : Enter(p, VersionID(builder[p], v), auth)
         \/ Enter(p, ActiveVersion(builder[p]), auth)

\* the last build of the workspace, and its job, as the store holds them
LastBuildIn(store) == store.builds[LatestBuildIndex(store.builds)]
LastBuildJobIn(store) == store.jobs[LastBuildIn(store).JobID]

\* a caller that has read the last build (and its job) seeds a new Builder
\* with them and calls Build on it
BuildSeeded(p) ==
    /\ load.seeded
    /\ db.builds # << >>
    /\ LastBuildIn(db).JobID \in DOMAIN db.jobs
    /\ \E b \in load.configs, auth \in load.auths :
         \/ Enter(p, SetLastWorkspaceBuildInTx(b, LastBuildIn(db)), auth)
         \/ Enter(p, SetLastWorkspaceBuildJobInTx(
                        SetLastWorkspaceBuildInTx(b, LastBuildIn(db)),
                        LastBuildJobIn(db)), auth)

\* store.InTx opens the transaction: it reads from the store as committed now
TxBegin(p) ==
    /\ pc[p] = "begin"
    /\ pc' = [pc EXCEPT ![p] = "tx"]
    /\ snap' = [snap EXCEPT ![p] = db]
    /\ UNCHANGED <<db, builder, retries, outerErr, authFn, result, calls, storelog, faults, entry, load>>

\* one iteration of the loop of Build: buildTx runs in the open transaction,
\* InTx commits or rolls back, and Build retries or returns
TxEnd(p) ==
    /\ pc[p] = "tx"
    /\ \E f \in load.faultset :
       \E es \in {buildTx(NewExec(builder[p], snap[p], db, authFn[p],
                                  <<p, calls[p], retries[p] + 1>>, f))} :
       \E txErr \in {InTx(es)} :
       \E injected \in {es.hit \/ CommitFails(es)} :
             /\ f = NoFault \/ (injected /\ faults < load.faults /\ p \in load.faulty)
             /\ faults' = IF injected THEN faults + 1 ELSE faults
             /\ db' = IF txErr = NoErr THEN CommitTx(db, es) ELSE db
             /\ builder' = [builder EXCEPT ![p] = es.b]
             /\ outerErr' = [outerErr EXCEPT ![p] = es.err]
             /\ storelog' = [storelog EXCEPT ![p] = es.log]
             /\ snap' = [snap EXCEPT ![p] = InitDB]
             /\ IF IsSerializationFailure(txErr)
                THEN /\ retries' = [retries EXCEPT ![p] = @ + 1]
                     /\ IF retries[p] + 1 < MaxAttempts
                        THEN /\ pc' = [pc EXCEPT ![p] = "begin"]
                             /\ UNCHANGED result
                        ELSE /\ pc' = [pc EXCEPT ![p] = "idle"]
                             /\ result' = [result EXCEPT ![p] =
                                   Returned(None, None,
                                            Errorf("too many errors; last error", es.err))]
                ELSE /\ pc' = [pc EXCEPT ![p] = "idle"]
                     /\ result' = [result EXCEPT ![p] =
                           IF txErr # NoErr THEN Returned(None, None, txErr)
                           ELSE Returned(es.wb, es.pj, NoErr)]
                     /\ UNCHANGED retries
    /\ UNCHANGED <<authFn, calls, entry, load>>

\* a provisioner daemon acquires a pending job
AcquireJob(j) ==
    /\ j \in DOMAIN db.jobs
    /\ ~db.jobs[j].StartedAt
    /\ db' = [db EXCEPT !.jobs[j].StartedAt = TRUE]
    /\ UNCHANGED <<builder, pc, snap, retries, outerErr, authFn, result, calls, storelog, faults, entry, load>>

\* a provisioner daemon completes a running job, with or without an error
CompleteJob(j) ==
    /\ j \in DOMAIN db.jobs
    /\ db.jobs[j].StartedAt /\ ~db.jobs[j].CompletedAt
    /\ \E e \in load.jobErrors :
         db' = [db EXCEPT !.jobs[j].CompletedAt = TRUE, !.jobs[j].Error = e]
    /\ UNCHANGED <<builder, pc, snap, retries, outerErr, authFn, result, calls, storelog, faults, entry, load>>

Next ==
    \/ \E p \in Procs : BuildNew(p)
    \/ \E p \in Procs : BuildAgain(p)
    \/ \E p \in Procs : BuildDerived(p)
    \/ \E p \in Procs : BuildSeeded(p)
    \/ \E p \in Procs : TxBegin(p)
    \/ \E p \in Procs : TxEnd(p)
    \/ \E j \in DOMAIN db.jobs : AcquireJob(j)
    \/ \E j \in DOMAIN db.jobs : CompleteJob(j)

Spec == Init /\ [][Next]_vars

\* the open transaction of p ends: the steps of TxEnd(p), told by what they
\* do to pc, the loop of Build going on or returning
LeavesTx(p) ==
    /\ pc[p] = "tx"
    /\ pc' \in {[pc EXCEPT ![p] = "begin"], [pc EXCEPT ![p] = "idle"]}

\* a caller that is inside Build goes on: the store answers every InTx call
\* and the loop of Build takes its next step
FairSpec ==
    /\ Start(LiveWorkloads)
    /\ [][Next]_vars
    /\ \A p \in Procs : WF_vars(TxBegin(p)) /\ WF_pc(LeavesTx(p))

-----------------------------------------------------------------------------
(* Properties *)

Range(seq) == {seq[i] : i \in 1..Len(seq)}

\* the step is the end of an attempt of p (TxEnd)
AttemptEnds(p) == pc[p] = "tx" /\ pc'[p] # "tx"
\* the step makes the Build of p return
BuildReturns(p) == pc[p] = "tx" /\ pc'[p] = "idle"

Succeeded(r) == r.returned /\ r.err = NoErr
Failed(r) == r.returned /\ r.err # NoErr

\* the rows a Build call of p wrote: its ids start with <<p, call>>
OfCall(id, p, c) == id[1] = p /\ id[2] = c
BuildsOfCall(store, p, c) == {b \in Range(store.builds) : OfCall(b.ID, p, c)}
JobsOfCall(store, p, c) == {j \in DOMAIN store.jobs : OfCall(j, p, c)}
ParamsOfCall(store, p, c) == {k \in DOMAIN store.bparams : OfCall(k, p, c)}

\* the version belongs to the template of the workspace
BelongsToTemplate(v) ==
    /\ v \in TemplateVersionIDs
    /\ TemplateVersionRow(v).TemplateID = Some(Workspace.TemplateID)

\* C1: the committed builds of the workspace carry the build numbers 1, 2, ...
\* without gap or duplicate: the Nth committed build has build number N.
C1_BuildNumbersConsecutive ==
    \A i \in 1..Len(db.builds) : db.builds[i].BuildNumber = i

Overlapped(p, q) == q \in entry[p].peers \/ p \in entry[q].peers

\* C2: two Build calls on the workspace that run concurrently, both entered
\* while the job of the last build was finished, never both succeed.
C2_ConcurrentBuildsNeverBothSucceed ==
    \A p, q \in Procs :
        (/\ p # q
         /\ Overlapped(p, q)
         /\ entry[p].jobDone /\ entry[q].jobDone
         /\ result[p].returned /\ result[q].returned)
        => ~(Succeeded(result[p]) /\ Succeeded(result[q]))

ActiveBuilds(store) ==
    {i \in 1..Len(store.builds) :
        /\ store.builds[i].JobID \in DOMAIN store.jobs
        /\ Active(ConvertProvisionerJobStatus(store.jobs[store.builds[i].JobID]))}

\* C3: in every committed store state at most one job among the jobs of the
\* workspace's builds is pending or running.
C3_AtMostOneActiveJob == Cardinality(ActiveBuilds(db)) <= 1

\* C4: an attempt of Build whose transaction sees the job of the workspace's
\* latest build pending or running commits nothing and, when it makes Build
\* return, Build returns an error; with a nil authFunc, the default version
\* selector and no store failure that error is the conflict (409).
C4_ActiveJobRejects ==
    [][\A p \in Procs :
          (AttemptEnds(p) /\ ~LastJobDone(snap[p]))
          => /\ db' = db
             /\ BuildReturns(p) => result'[p].err # NoErr
             /\ (authFn[p] = None /\ builder[p].version = NoVersionTarget /\ faults' = faults)
                => (BuildReturns(p) /\ result'[p].err.status = StatusConflict)]_vars

\* C5: when four attempts ended in a serialization failure and the fifth
\* succeeds, Build returns success and the committed store holds, of this
\* call, exactly one build, one job and one set of build parameters, all
\* written by the fifth attempt, and exactly one legacy value for every
\* overridden name.
C5_FifthAttemptCommitsOnce ==
    [][\A p \in Procs :
          (BuildReturns(p) /\ retries[p] = MaxAttempts - 1 /\ result'[p].err = NoErr)
          => /\ BuildsOfCall(db', p, calls[p]) = {Val(result'[p].build)}
             /\ Val(result'[p].build).ID = <<p, calls[p], MaxAttempts>>
             /\ JobsOfCall(db', p, calls[p]) = {Val(result'[p].job).ID}
             /\ ParamsOfCall(db', p, calls[p]) = {Val(result'[p].build).ID}
             /\ \A i \in 1..Len(builder[p].legacyParameterValues) :
                   Cardinality({v \in db'.legacy :
                       v.Name = builder[p].legacyParameterValues[i].Name}) = 1]_vars

\* C6: when all five attempts ended in a serialization failure, Build has
\* run exactly five transactions, has committed nothing, and the error it
\* returns wraps the serialization failure of the last attempt.
C6_ExhaustedWrapsLastFailure ==
    \A p \in Procs :
        (result[p].returned /\ retries[p] = MaxAttempts)
        => /\ IsSerializationFailure(result[p].err)
           /\ BuildsOfCall(db, p, calls[p]) = {}
           /\ JobsOfCall(db, p, calls[p]) = {}

CacheEmpty(b) ==
    /\ b.template = None /\ b.templateVersion = None /\ b.templateVersionJob = None
    /\ b.templateVersionParameters = None /\ b.lastBuild = None
    /\ b.lastBuildJob = None /\ b.lastParameterValues = None

\* C7: the cache is scoped to one attempt: when Build opens the transaction
\* of a retry, nothing read in the rolled-back attempts is left in it.
C7_CacheClearedOnRetry ==
    \A p \in Procs : (pc[p] = "begin" /\ retries[p] > 0) => CacheEmpty(builder[p])

\* C8: the committed store changes only in two ways: a provisioner daemon
\* updates a job, or a Build returns success and then the change is exactly
\* one new job and one new build that refers to it (with the build's
\* parameters and the legacy overrides of the same attempt); an attempt that
\* ends in an error, and a Build that returns one, change nothing.
C8_OneJobOneBuildOrNothing ==
    [][db' # db =>
          \/ /\ db'.builds = db.builds /\ db'.legacy = db.legacy
             /\ db'.bparams = db.bparams /\ DOMAIN db'.jobs = DOMAIN db.jobs
             /\ \A p \in Procs : pc'[p] = pc[p]
          \/ \E p \in Procs :
               /\ BuildReturns(p) /\ result'[p].err = NoErr
               /\ LET wb == Val(result'[p].build)
                      pj == Val(result'[p].job)
                  IN  /\ db'.builds = Append(db.builds, wb)
                      /\ DOMAIN db'.jobs = DOMAIN db.jobs \cup {pj.ID}
                      /\ pj.ID \notin DOMAIN db.jobs
                      /\ db'.jobs[pj.ID] = pj
                      /\ wb.JobID = pj.ID
                      /\ pj.Input.WorkspaceBuildID = Some(wb.ID)
                      /\ DOMAIN db'.bparams = DOMAIN db.bparams \cup {wb.ID}
                      /\ \A v \in db'.legacy \ db.legacy :
                            SubSeq(v.ID, 1, 3) = wb.ID]_vars

\* a Build has returned an error after its attempt had inserted the job and
\* the build in its transaction, and the store holds none of them
C8_Witness ==
    \E p \in Procs :
        /\ Failed(result[p])
        /\ result[p].err.status = StatusBadRequest
        /\ \E i \in 1..Len(storelog[p]) : storelog[p][i] = "InsertWorkspaceBuild"
        /\ BuildsOfCall(db, p, calls[p]) = {}
        /\ JobsOfCall(db, p, calls[p]) = {}

\* the version the Builder is configured to build, read from store
\* the Builder selects a version: a given one, the active one, or the one of
\* the last build when the workspace has a build
SelectsVersion(b, store) ==
    IsSome(b.version.specific) \/ b.version.active \/ store.builds # << >>

SelectedVersion(b, store) ==
    IF IsSome(b.version.specific) THEN Val(b.version.specific)
    ELSE IF b.version.active THEN store.templates[Workspace.TemplateID].ActiveVersionID
    ELSE store.builds[LatestBuildIndex(store.builds)].TemplateVersionID

\* C9: an attempt of a Build whose template version does not belong to the
\* workspace's template commits nothing and, when it makes Build return,
\* Build returns an error; with a nil authFunc and no store failure that
\* error is the bad request (400).
C9_MismatchRejects ==
    [][\A p \in Procs :
          (/\ AttemptEnds(p)
           /\ SelectsVersion(builder[p], snap[p])
           /\ ~BelongsToTemplate(SelectedVersion(builder[p], snap[p])))
          => /\ db' = db
             /\ BuildReturns(p) => result'[p].err # NoErr
             /\ (authFn[p] = None /\ faults' = faults)
                => (BuildReturns(p) /\ result'[p].err.status = StatusBadRequest)]_vars

\* C10: every committed build of the workspace names a template version that
\* belongs to the workspace's template.
C10_BuildVersionBelongsToTemplate ==
    \A i \in 1..Len(db.builds) : BelongsToTemplate(db.builds[i].TemplateVersionID)

\* the message of the rejection for an import status
ImportMessage(st) ==
    CASE st = "failed" ->
           "The provided template version has failed to import. You cannot build workspaces with it!"
      [] st = "canceled" ->
           "The provided template version was canceled during import. You cannot build workspaces with it!"
      [] OTHER -> "The provided template version is " \o st
                      \o ". Wait for it to complete importing!"

\* the status derived for the import job the Builder has resolved
ResolvedImportStatus(b) == ConvertProvisionerJobStatus(Val(b.templateVersionJob))

ImportStatuses == {"pending", "running", "failed", "canceled"}
MismatchMessage == "template version doesn't match template"
ResolutionMessage == "parameter resolution failed"

\* the import status a rejection message of buildTx is about, if any
RejectedFor(err, st) == err # NoErr /\ err.msg = ImportMessage(st)

\* C12 (as claimed): every rejection for an unusable import status (pending,
\* running, failed or canceled) carries the bad-request classification (400).
C12_ImportRejectionsBadRequest ==
    \A p \in Procs : \A st \in ImportStatuses :
        (result[p].returned /\ RejectedFor(outerErr[p], st))
        => result[p].err.status = StatusBadRequest

\* C12 (amended): a rejection for a failed or canceled import carries the
\* bad-request classification (400), as do a version/template mismatch and a
\* parameter resolution failure; a rejection for a pending or running import
\* carries the not-acceptable classification (406).
C12_ImportRejectionClasses ==
    \A p \in Procs :
        result[p].returned =>
          /\ \A st \in {"failed", "canceled"} :
                RejectedFor(outerErr[p], st) => result[p].err.status = StatusBadRequest
          /\ \A st \in {"pending", "running"} :
                RejectedFor(outerErr[p], st) => result[p].err.status = StatusNotAcceptable
          /\ outerErr[p].msg \in {MismatchMessage, ResolutionMessage}
                => result[p].err.status = StatusBadRequest

\* a Build has been rejected because the import of its version is pending
C12_Witness ==
    \E p \in Procs :
        /\ Failed(result[p])
        /\ RejectedFor(outerErr[p], "pending")
        /\ ResolvedImportStatus(builder[p]) = "pending"
        /\ result[p].err.status = StatusNotAcceptable

SupportedTransitions == {"delete", "start", "stop"}

\* C13: an attempt of a Build whose transition is not start, stop or delete
\* makes Build return the bad-request classification (400) without having
\* issued any store read or write and commits nothing, whether or not an
\* authFunc is supplied.
C13_UnsupportedTransitionRejected ==
    [][\A p \in Procs :
          (AttemptEnds(p) /\ builder[p].trans \notin SupportedTransitions)
          => /\ BuildReturns(p)
             /\ result'[p].err.status = StatusBadRequest
             /\ storelog'[p] = << >>
             /\ db' = db]_vars

\* the action the claims name for a supported transition
ActionFor(trans) == IF trans = "delete" THEN "delete" ELSE "update"

\* C14: when an authFunc is supplied, an attempt with a supported transition
\* first asks it for the delete action on the workspace for a delete
\* transition and for the update action for start and stop; if the answer
\* is false, Build returns the not-found classification (404) at once and
\* nothing is committed.
C14_WorkspaceDenialNotFound ==
    [][\A p \in Procs :
          (AttemptEnds(p) /\ IsSome(authFn[p]) /\ builder[p].trans \in SupportedTransitions)
          => /\ storelog'[p] # << >>
             /\ storelog'[p][1] = "authFunc:" \o ActionFor(builder[p].trans) \o ":workspace"
             /\ ~AuthAllows(authFn[p], ActionFor(builder[p].trans), "workspace")
                => /\ BuildReturns(p)
                   /\ result'[p].err.status = StatusNotFound
                   /\ Len(storelog'[p]) = 1
                   /\ db' = db]_vars

\* a delete has been rejected with 404 by an authFunc that denies only the
\* delete action on the workspace
C14_Witness ==
    \E p \in Procs :
        /\ Failed(result[p])
        /\ builder[p].trans = "delete"
        /\ authFn[p] = DenyDelete
        /\ result[p].err.status = StatusNotFound
        /\ storelog[p] = << "authFunc:delete:workspace" >>
        /\ BuildsOfCall(db, p, calls[p]) = {}

\* the Builder was configured with State(...) or Orphan()
HasCustomState(b) == IsSome(b.state.explicit) \/ b.state.orphan

AskedTemplate(log) == \E i \in 1..Len(log) : log[i] = "authFunc:update:template"

\* C15 (as claimed): when an authFunc is supplied and the Builder was
\* configured with State(...) or Orphan(), a build is committed only if
\* authFunc allows the update action on the template; otherwise (the
\* transition being supported and the store not failing) Build is rejected
\* with the forbidden classification (403).  A Builder with the default
\* state selector and no log level is never asked for the template.
C15_CustomStateForbidden ==
    [][\A p \in Procs :
          (AttemptEnds(p) /\ IsSome(authFn[p]) /\ builder[p].trans \in SupportedTransitions)
          => /\ (HasCustomState(builder[p])
                   /\ ~AuthAllows(authFn[p], "update", "template"))
                => /\ db' = db
                   /\ faults' = faults
                      => (BuildReturns(p) /\ result'[p].err.status = StatusForbidden)
             /\ (~HasCustomState(builder[p]) /\ builder[p].logLevel = "")
                => (~AskedTemplate(storelog'[p])
                    /\ (BuildReturns(p) => result'[p].err.status # StatusForbidden))]_vars

\* C15 (amended): as claimed, except that the rejection is the forbidden
\* classification (403) only when authFunc allows the action on the
\* workspace; when it does not, Build is rejected with 404 before the
\* template is asked for.
C15_CustomStateForbiddenAfterWorkspace ==
    [][\A p \in Procs :
          (AttemptEnds(p) /\ IsSome(authFn[p]) /\ builder[p].trans \in SupportedTransitions)
          => /\ (HasCustomState(builder[p])
                   /\ ~AuthAllows(authFn[p], "update", "template"))
                => /\ db' = db
                   /\ BuildReturns(p) => result'[p].err # NoErr
                   /\ (faults' = faults
                         /\ AuthAllows(authFn[p], ActionFor(builder[p].trans), "workspace"))
                      => (BuildReturns(p) /\ result'[p].err.status = StatusForbidden)
                   /\ (faults' = faults
                         /\ ~AuthAllows(authFn[p], ActionFor(builder[p].trans), "workspace"))
                      => (BuildReturns(p) /\ result'[p].err.status = StatusNotFound
                          /\ ~AskedTemplate(storelog'[p]))
             /\ (~HasCustomState(builder[p]) /\ builder[p].logLevel = "")
                => (~AskedTemplate(storelog'[p])
                    /\ (BuildReturns(p) => result'[p].err.status # StatusForbidden))]_vars

\* an orphaning delete has been rejected with 403 by an authFunc that
\* allows the workspace action and denies the update of the template
C15_Witness ==
    \E p \in Procs :
        /\ Failed(result[p])
        /\ builder[p].state.orphan
        /\ authFn[p] = DenyTemplate
        /\ result[p].err.status = StatusForbidden
        /\ AskedTemplate(storelog[p])
        /\ BuildsOfCall(db, p, calls[p]) = {}

\* C16: when an authFunc is supplied and the Builder was configured with a
\* non-empty log level, a build is committed only if authFunc allows the
\* update action on the template; otherwise (the workspace action being
\* allowed, the state selector being the default and the store not failing)
\* Build is rejected with the forbidden classification (403).
C16_LogLevelForbidden ==
    [][\A p \in Procs :
          (/\ AttemptEnds(p) /\ IsSome(authFn[p])
           /\ builder[p].trans \in SupportedTransitions
           /\ builder[p].logLevel # ""
           /\ ~AuthAllows(authFn[p], "update", "template"))
          => /\ db' = db
             /\ BuildReturns(p) => result'[p].err # NoErr
             /\ (/\ faults' = faults
                 /\ ~HasCustomState(builder[p])
                 /\ AuthAllows(authFn[p], ActionFor(builder[p].trans), "workspace"))
                => (BuildReturns(p) /\ result'[p].err.status = StatusForbidden)]_vars

\* the build a transaction that begins on store sees as the latest one
PrecedingBuild(store) == store.builds[LatestBuildIndex(store.builds)]

\* C17: the ProvisionerState of a committed build is empty when the Builder
\* was configured with Orphan(), the given bytes when configured with
\* State(s), and otherwise the ProvisionerState of the immediately preceding
\* build of the workspace, the latest one the committing transaction sees.
C17_StateSelected ==
    [][\A p \in Procs :
          (BuildReturns(p) /\ result'[p].err = NoErr)
          => Val(result'[p].build).ProvisionerState =
                IF builder[p].state.orphan THEN ""
                ELSE IF IsSome(builder[p].state.explicit)
                     THEN Val(builder[p].state.explicit)
                     ELSE PrecedingBuild(snap[p]).ProvisionerState]_vars

\* C18: the TemplateVersionID of a committed build is the given id when the
\* Builder was configured with VersionID(v), the template's ActiveVersionID
\* as the committing transaction reads it when configured with
\* ActiveVersion(), and otherwise the TemplateVersionID of the workspace's
\* last build; and the version the Builder has validated is that version.
C18_VersionSelected ==
    [][\A p \in Procs :
          (BuildReturns(p) /\ result'[p].err = NoErr)
          => /\ Val(result'[p].build).TemplateVersionID
                   = SelectedVersion(builder[p], snap[p])
             /\ IsSome(builder'[p].templateVersion)
             /\ Val(builder'[p].templateVersion).ID
                   = Val(result'[p].build).TemplateVersionID]_vars

\* the names of a list of overrides are pairwise different
DistinctNames(ps) ==
    \A i, j \in 1..Len(ps) : ps[i].Name = ps[j].Name => i = j

\* the legacy values the store holds for a name in the workspace scope
LegacyValuesOf(store, name) ==
    {v \in store.legacy : v.Name = name /\ v.ScopeID = Workspace.ID}

\* C19: after a successful Build that overrides a legacy parameter whose name
\* already has a value in the workspace scope (as the committing transaction
\* sees it), exactly one legacy value exists for that name: it carries the
\* override's value and is not one of the rows that were there before.
C19_LegacyOverrideReplaces ==
    [][\A p \in Procs :
          (/\ BuildReturns(p) /\ result'[p].err = NoErr
           /\ DistinctNames(builder[p].legacyParameterValues))
          => \A i \in 1..Len(builder[p].legacyParameterValues) :
                LegacyValuesOf(snap[p], builder[p].legacyParameterValues[i].Name) # {}
                => /\ Cardinality(LegacyValuesOf(db',
                          builder[p].legacyParameterValues[i].Name)) = 1
                   /\ \A v \in LegacyValuesOf(db',
                             builder[p].legacyParameterValues[i].Name) :
                         /\ v.SourceValue
                               = builder[p].legacyParameterValues[i].SourceValue
                         /\ v \notin snap[p].legacy]_vars

\* the rich parameters the store holds for the preceding build
PrecedingParameters(store) ==
    IF store.builds # << >> /\ PrecedingBuild(store).ID \in DOMAIN store.bparams
    THEN store.bparams[PrecedingBuild(store).ID]
    ELSE << >>

\* the prior value of a schema parameter, as the store holds it
PriorValue(tvp, store) ==
    findLastValue(tvp, PrecedingParameters(store), LegacyValuesOf(store, tvp.LegacyVariableName))

\* a required parameter that has no override, no prior value and no default
Unresolvable(tvp, b, store) ==
    /\ tvp.Required
    /\ tvp.DefaultValue = ""
    /\ ~IsSome(findNewBuildParameterValue(b, tvp.Name))
    /\ ~IsSome(PriorValue(tvp, store))

\* the value the build has to store for a schema parameter
ExpectedValue(tvp, b, store) ==
    IF IsSome(findNewBuildParameterValue(b, tvp.Name))
    THEN Val(findNewBuildParameterValue(b, tvp.Name)).Value
    ELSE IF IsSome(PriorValue(tvp, store)) THEN Val(PriorValue(tvp, store))
    ELSE tvp.DefaultValue

\* the values a list of build parameters holds for a name
StoredValues(rows, name) == {k \in 1..Len(rows) : rows[k].Name = name}

\* the build parameters of a build hold exactly one value for every parameter
\* of the schema, and it is the expected one
StoresSchema(schema, rows, b, store) ==
    \A i \in 1..Len(schema) :
        /\ ~Unresolvable(schema[i], b, store)
        /\ Cardinality(StoredValues(rows, schema[i].Name)) = 1
        /\ \A k \in StoredValues(rows, schema[i].Name) :
              rows[k].Value = ExpectedValue(schema[i], b, store)

\* C20: a successful Build stores, for every parameter the schema of the
\* build's TemplateVersion declares, exactly one value: the caller's override
\* when one is given, else the prior value (of the preceding build as the
\* committing transaction sees it, or the legacy value), else the default;
\* it does not succeed when a required parameter has none of the three.  A
\* Build the resolver has rejected returns the bad request (400) and has
\* committed nothing.
C20_OneValuePerSchemaParameter ==
    [][\A p \in Procs :
          /\ (BuildReturns(p) /\ result'[p].err = NoErr)
             => /\ Val(result'[p].build).ID \in DOMAIN db'.bparams
                /\ StoresSchema(
                      TemplateVersionParameterRows(Val(result'[p].build).TemplateVersionID),
                      db'.bparams[Val(result'[p].build).ID], builder[p], snap[p])
          /\ (BuildReturns(p) /\ outerErr'[p].msg = "parameter resolution failed")
             => /\ result'[p].err.status = StatusBadRequest
                /\ db' = db]_vars

\* the error is a failure of the store other than a serialization failure:
\* a connection failure, a canceled context, or no row
HardStoreError(err) == err.cause \in {"08006", "canceled", "ErrNoRows"}

\* the messages of the steps of buildTx that issue a store operation
StepMessages(op) ==
    CASE op = "GetTemplateByID" -> {"failed to fetch template"}
      [] op = "GetTemplateVersionByID" -> {"failed to fetch template version"}
      [] op = "GetProvisionerJobByID" ->
           {"failed to fetch template version job", "failed to fetch prior build"}
      [] op = "GetLatestWorkspaceBuildByWorkspaceID" ->
           {"failed to fetch template version", "failed to fetch prior build"}
      [] op = "ParameterValues" -> {"failed to fetch previous legacy parameters."}
      [] op = "DeleteParameterValueByID" -> {"Failed to delete old param"}
      [] op = "InsertParameterValue" -> {"insert parameter value"}
      [] op = "InsertProvisionerJob" -> {"insert provisioner job"}
      [] op = "InsertWorkspaceBuild" -> {"insert workspace build"}
      [] op = "GetTemplateVersionParameters" ->
           {"failed to fetch template version parameters"}
      [] op = "GetWorkspaceBuildParameters" -> {"failed to fetch last build parameters"}
      [] op = "InsertWorkspaceBuildParameters" -> {"insert workspace build parameters"}
      [] OTHER -> {}

\* C21: an attempt in which a store read or write of buildTx answers an
\* error that is not a serialization failure (no row for the last build
\* included) is the last attempt of its Build: Build returns that error, with
\* no build and no job, as a BuildError of status 500 whose message names the
\* step of the failing operation, and nothing is committed.
C21_HardStoreErrorEndsBuild ==
    [][\A p \in Procs :
          (AttemptEnds(p) /\ HardStoreError(outerErr'[p]))
          => /\ BuildReturns(p)
             /\ result'[p].build = None /\ result'[p].job = None
             /\ result'[p].err.cause = outerErr'[p].cause
             /\ result'[p].err.status = StatusInternalServerError
             /\ outerErr'[p].kind = "BuildError"
             /\ storelog'[p] # << >>
             /\ outerErr'[p].msg \in StepMessages(storelog'[p][Len(storelog'[p])])
             /\ db' = db]_vars

\* a Build has returned, after a single attempt, the connection failure the
\* store answered to InsertWorkspaceBuild
C21_Witness ==
    \E p \in Procs :
        /\ Failed(result[p])
        /\ outerErr[p].cause = "08006"
        /\ outerErr[p].msg = "insert workspace build"
        /\ result[p].err.status = StatusInternalServerError
        /\ retries[p] = 0

\* the version belongs to the workspace's template, its import has succeeded
\* and the Builder has a value for each of its parameters
Usable(v, b, store) ==
    /\ BelongsToTemplate(v)
    /\ ConvertProvisionerJobStatus(ImportJob(v)) = "succeeded"
    /\ \A i \in 1..Len(TemplateVersionParameterRows(v)) :
          ~Unresolvable(TemplateVersionParameterRows(v)[i], b, store)

\* C22: a Build of a workspace without any build, with a usable version
\* selected by VersionID or ActiveVersion, an authFunc that is nil or allows
\* everything, and no store failure, succeeds, and the build it returns is
\* committed with build number 1.
C22_FirstBuildNumberOne ==
    [][\A p \in Procs :
          (/\ BuildReturns(p)
           /\ snap[p].builds = << >>
           /\ IsSome(builder[p].version.specific) \/ builder[p].version.active
           /\ Usable(SelectedVersion(builder[p], snap[p]), builder[p], snap[p])
           /\ authFn[p] \in {None, AllowAll}
           /\ faults' = faults)
          => /\ result'[p].err = NoErr
             /\ Val(result'[p].build).BuildNumber = 1
             /\ Val(result'[p].build) \in Range(db'.builds)]_vars

\* the build the first Build call of p has committed
FirstCallBuild(store, p) == CHOOSE b \in BuildsOfCall(store, p, 1) : TRUE

\* C23: when a caller's first Build has committed a build, the job of which
\* has completed before the caller calls Build a second time, on the same
\* Builder with the default state and version, without store failure, then
\* the second Build succeeds and commits a build with the next build number
\* and with the state and the version of the first call's build.
C23_ReuseGivesConsecutiveBuilds ==
    [][\A p \in Procs :
          (/\ BuildReturns(p)
           /\ calls[p] = 2
           /\ BuildsOfCall(db, p, 1) # {}
           /\ entry[p].jobDone
           /\ builder[p].version = NoVersionTarget
           /\ builder[p].state = NoStateTarget
           /\ authFn[p] \in {None, AllowAll}
           /\ faults' = faults)
          => /\ result'[p].err = NoErr
             /\ Val(result'[p].build) \in Range(db'.builds)
             /\ Val(result'[p].build).BuildNumber
                   = FirstCallBuild(db, p).BuildNumber + 1
             /\ Val(result'[p].build).ProvisionerState
                   = FirstCallBuild(db, p).ProvisionerState
             /\ Val(result'[p].build).TemplateVersionID
                   = FirstCallBuild(db, p).TemplateVersionID]_vars

\* the Builder d has the value x in the field f and equals the Builder b in
\* every other field
OnlySets(b, d, f, x) ==
    /\ DOMAIN d = DOMAIN b
    /\ d[f] = x
    /\ \A g \in DOMAIN b \ {f} : d[g] = b[g]

\* C24: applied to any Builder a caller holds, configured or executed, each
\* setter returns a Builder that carries the given value in the field it
\* sets (the version selector, the state selector, the log level, the
\* initiator, the reason, the legacy and rich overrides, the seeded last
\* build and its job) and equals the Builder it was applied to in every other
\* field, settings and cache alike.
C24_SettersChangeOneField ==
    \A p \in Procs :
        /\ OnlySets(builder[p], VersionID(builder[p], "v2"), "version",
                    [active |-> FALSE, specific |-> Some("v2")])
        /\ OnlySets(builder[p], ActiveVersion(builder[p]), "version",
                    [active |-> TRUE, specific |-> None])
        /\ OnlySets(builder[p], State(builder[p], "s1"), "state",
                    [orphan |-> FALSE, explicit |-> Some("s1")])
        /\ OnlySets(builder[p], Orphan(builder[p]), "state",
                    [orphan |-> TRUE, explicit |-> None])
        /\ OnlySets(builder[p], LogLevel(builder[p], "debug"), "logLevel", "debug")
        /\ OnlySets(builder[p], Initiator(builder[p], "u1"), "initiator", "u1")
        /\ OnlySets(builder[p], Reason(builder[p], "autostart"), "reason", "autostart")
        /\ OnlySets(builder[p],
                    LegacyParameterValues(builder[p], << LegacyOverride("n2") >>),
                    "legacyParameterValues", << LegacyOverride("n2") >>)
        /\ OnlySets(builder[p],
                    RichParameterValues(builder[p], << [Name |-> "p", Value |-> "y"] >>),
                    "richParameterValues", << [Name |-> "p", Value |-> "y"] >>)
        /\ OnlySets(builder[p], SetLastWorkspaceBuildInTx(builder[p], FirstBuild),
                    "lastBuild", Some(FirstBuild))
        /\ OnlySets(builder[p], SetLastWorkspaceBuildJobInTx(builder[p], FirstJob),
                    "lastBuildJob", Some(FirstJob))

\* a caller holds a Builder it has derived with VersionID from a Builder with
\* legacy overrides it had executed: the overrides and the cache are kept
C24_Witness ==
    \E p \in Procs :
        /\ calls[p] = 2
        /\ IsSome(builder[p].version.specific)
        /\ builder[p].legacyParameterValues # << >>
        /\ IsSome(builder[p].lastBuild)

\* the initiator and the reason of the build of a Builder: the given ones,
\* else the workspace's owner and "initiator"
EffectiveInitiator(b) == IF b.initiator = "" THEN Workspace.OwnerID ELSE b.initiator
EffectiveReason(b) == IF b.reason = "" THEN "initiator" ELSE b.reason

\* C25: the build and the job a successful Build returns are committed rows
\* whose InitiatorID is the id given with Initiator(u), or the workspace's
\* owner when none (the nil id) was given; the Reason of the build is the one
\* given with Reason(r), or "initiator" when none was given.
C25_InitiatorAndReason ==
    [][\A p \in Procs :
          (BuildReturns(p) /\ result'[p].err = NoErr)
          => /\ Val(result'[p].build) \in Range(db'.builds)
             /\ Val(result'[p].job).ID \in DOMAIN db'.jobs
             /\ db'.jobs[Val(result'[p].job).ID] = Val(result'[p].job)
             /\ Val(result'[p].build).InitiatorID = EffectiveInitiator(builder[p])
             /\ Val(result'[p].job).InitiatorID = EffectiveInitiator(builder[p])
             /\ Val(result'[p].build).Reason = EffectiveReason(builder[p])]_vars

\* a Build configured with Initiator(u1) and Reason(autostart) has succeeded
C25_Witness ==
    \E p \in Procs :
        /\ Succeeded(result[p])
        /\ Val(result[p].build).InitiatorID = "u1"
        /\ Val(result[p].job).InitiatorID = "u1"
        /\ Val(result[p].build).Reason = "autostart"
        /\ Workspace.OwnerID # "u1"

\* the writes of a new job, a new build and its parameters
BuildWrites == {"InsertProvisionerJob", "InsertWorkspaceBuild", "InsertWorkspaceBuildParameters"}

\* C26: an attempt that ends with a failure of the parameter resolution has
\* issued no InsertProvisionerJob, no InsertWorkspaceBuild and no
\* InsertWorkspaceBuildParameters call to the store.
C26_ResolutionBeforeInserts ==
    [][\A p \in Procs :
          (AttemptEnds(p) /\ outerErr'[p].msg = "parameter resolution failed")
          => Range(storelog'[p]) \cap BuildWrites = {}]_vars

\* the writes buildTx issues on the store
WriteOps ==
    {"DeleteParameterValueByID", "InsertParameterValue", "InsertProvisionerJob",
     "InsertWorkspaceBuild", "InsertWorkspaceBuildParameters"}

\* the log entries of the calls of authFunc
AuthCalls ==
    {"authFunc:" \o a \o ":" \o o : a \in {"update", "delete"},
                                     o \in {"workspace", "template"}}

\* the authorization pre-check passes for the Builder: the transition is
\* supported and auth allows every action the Builder requires
AuthorizationPasses(b, auth) ==
    /\ b.trans \in SupportedTransitions
    /\ AuthAllows(auth, ActionFor(b.trans), "workspace")
    /\ HasCustomState(b) => AuthAllows(auth, "update", "template")
    /\ b.logLevel # "" => AuthAllows(auth, "update", "template")

\* the three validations pass on the rows the Builder has resolved: the
\* version belongs to the template, its import has succeeded and the job of
\* the last build is not active
ValidationsPass(b) ==
    /\ IsSome(b.template) /\ IsSome(b.templateVersion)
    /\ Val(b.templateVersion).TemplateID = Some(Val(b.template).ID)
    /\ IsSome(b.templateVersionJob)
    /\ ConvertProvisionerJobStatus(Val(b.templateVersionJob)) = "succeeded"
    /\ IsSome(b.lastBuildJob)
    /\ ~Active(ConvertProvisionerJobStatus(Val(b.lastBuildJob)))

\* C27: in every attempt, the first or a later one, an authFunc that is
\* supplied is asked first of all about the workspace (when the transition
\* is supported); and an attempt that has issued a write to the store has
\* issued it after every call of authFunc, the authorization pre-check
\* passes (when authFunc is supplied) and the three validations pass on the
\* rows the attempt has used.
C27_WritesAfterChecks ==
    [][\A p \in Procs :
          AttemptEnds(p) =>
            /\ (authFn[p] # None /\ builder[p].trans \in SupportedTransitions)
               => /\ storelog'[p] # << >>
                  /\ storelog'[p][1]
                        = "authFunc:" \o ActionFor(builder[p].trans) \o ":workspace"
            /\ (Range(storelog'[p]) \cap WriteOps # {})
               => /\ authFn[p] # None => AuthorizationPasses(builder'[p], authFn[p])
                  /\ ValidationsPass(builder'[p])
                  /\ \A i, j \in 1..Len(storelog'[p]) :
                        (storelog'[p][i] \in AuthCalls /\ storelog'[p][j] \in WriteOps)
                        => i < j]_vars

\* a retry attempt of a Build with an authFunc and a legacy override has
\* asked the authFunc again and has then written
C27_Witness ==
    \E p \in Procs :
        /\ retries[p] > 0
        /\ authFn[p] # None
        /\ Succeeded(result[p])
        /\ storelog[p] # << >>
        /\ storelog[p][1] = "authFunc:update:workspace"
        /\ "InsertParameterValue" \in Range(storelog[p])

\* the writes of an attempt in the order of their stages
WriteStages ==
    << {"DeleteParameterValueByID", "InsertParameterValue"},
       {"InsertProvisionerJob"},
       {"InsertWorkspaceBuild"},
       {"InsertWorkspaceBuildParameters"} >>

StageOf(op) == CHOOSE k \in 1..Len(WriteStages) : op \in WriteStages[k]

\* how often the log holds the operation
Count(log, op) == Cardinality({i \in 1..Len(log) : log[i] = op})

\* C28: the attempt that makes Build succeed has issued its writes in the
\* order legacy deletes and inserts, InsertProvisionerJob,
\* InsertWorkspaceBuild, InsertWorkspaceBuildParameters, the last three once
\* each; the input of the job names the id of the build, the JobID of the
\* build is the id of the job, and the build parameters are stored under the
\* id of the build.
C28_WriteOrderAndLinks ==
    [][\A p \in Procs :
          (BuildReturns(p) /\ result'[p].err = NoErr)
          => /\ \A i, j \in 1..Len(storelog'[p]) :
                   (/\ i < j
                    /\ storelog'[p][i] \in WriteOps
                    /\ storelog'[p][j] \in WriteOps)
                   => StageOf(storelog'[p][i]) <= StageOf(storelog'[p][j])
             /\ \A op \in BuildWrites : Count(storelog'[p], op) = 1
             /\ Val(result'[p].job).Input.WorkspaceBuildID
                   = Some(Val(result'[p].build).ID)
             /\ Val(result'[p].build).JobID = Val(result'[p].job).ID
             /\ ParamsOfCall(db', p, calls[p]) \ ParamsOfCall(db, p, calls[p])
                   = {Val(result'[p].build).ID}]_vars

\* a Build with a legacy override has succeeded: its attempt has deleted the
\* old value and inserted the new one before it has inserted the job
C28_Witness ==
    \E p \in Procs :
        /\ Succeeded(result[p])
        /\ "DeleteParameterValueByID" \in Range(storelog[p])
        /\ "InsertParameterValue" \in Range(storelog[p])
        /\ "InsertWorkspaceBuildParameters" \in Range(storelog[p])
        /\ Val(result[p].build).JobID = Val(result[p].job).ID

\* the names a Builder overrides with legacy values
OverriddenNames(b) == {b.legacyParameterValues[i].Name : i \in 1..Len(b.legacyParameterValues)}

\* C29: once two Builds that ran concurrently and overrode the same legacy
\* parameter name have both returned, the workspace scope holds at most one
\* legacy value for that name, and a value it holds was written by one of
\* the two Builds that has succeeded, or is the one that was there before
\* when neither has.
C29_ConcurrentOverridesKeepOne ==
    \A p, q \in Procs :
        (/\ p # q
         /\ result[p].returned /\ result[q].returned
         /\ pc[p] = "idle" /\ pc[q] = "idle"
         /\ Overlapped(p, q))
        => \A n \in OverriddenNames(builder[p]) \cap OverriddenNames(builder[q]) :
              /\ Cardinality(LegacyValuesOf(db, n)) <= 1
              /\ \A v \in LegacyValuesOf(db, n) :
                    \/ \E r \in {p, q} :
                          Succeeded(result[r]) /\ OfCall(v.ID, r, calls[r])
                    \/ /\ ~Succeeded(result[p]) /\ ~Succeeded(result[q])
                       /\ v \in LegacyValuesOf(load.db, n)

\* the reads that fetch one object each
SingleReads ==
    {"GetTemplateByID", "GetTemplateVersionByID", "GetTemplateVersionParameters",
     "GetLatestWorkspaceBuildByWorkspaceID", "GetWorkspaceBuildParameters",
     "ParameterValues"}

\* the jobs the Builder has not resolved yet: the import job of the version
\* and the job of the last build, both fetched with GetProvisionerJobByID
UnresolvedJobs(b) ==
    {x \in {"templateVersionJob", "lastBuildJob"} : ~IsSome(b[x])}

\* C30: an attempt issues each of the reads GetTemplateByID,
\* GetTemplateVersionByID, GetTemplateVersionParameters,
\* GetLatestWorkspaceBuildByWorkspaceID, GetWorkspaceBuildParameters and
\* ParameterValues at most once, and GetProvisionerJobByID at most once for
\* each of the two jobs (the import job and the job of the last build) that
\* the Builder has not resolved before the attempt.
C30_EachReadAtMostOnce ==
    [][\A p \in Procs :
          AttemptEnds(p) =>
            /\ \A op \in SingleReads : Count(storelog'[p], op) <= 1
            /\ Count(storelog'[p], "GetProvisionerJobByID")
                  <= Cardinality(UnresolvedJobs(builder[p]))]_vars

\* a Build has succeeded in an attempt that has read every object once: the
\* two jobs with one GetProvisionerJobByID each
C30_Witness ==
    \E p \in Procs :
        /\ Succeeded(result[p])
        /\ \A op \in SingleReads : Count(storelog[p], op) = 1
        /\ Count(storelog[p], "GetProvisionerJobByID") = 2

\* the Builder without the seeded rows
Unseeded(b) == [b EXCEPT !.lastBuild = None, !.lastBuildJob = None]

\* the Builder of the first attempt of a caller's first Build holds a last
\* build: it has been seeded
Seeded(p) == calls[p] = 1 /\ retries[p] = 0 /\ IsSome(builder[p].lastBuild)

\* the seeded rows are the ones the transaction reads
SeedIsCurrent(b, store) ==
    /\ store.builds # << >>
    /\ Val(b.lastBuild) = LastBuildIn(store)
    /\ IsSome(b.lastBuildJob) => b.lastBuildJob = LookupJob(store, Val(b.lastBuild).JobID)

\* the outcome of the attempt of p is the outcome buildTx has for the Builder b
SameOutcome(p, es) ==
    /\ outerErr'[p] = es.err
    /\ result'[p].build = es.wb /\ result'[p].job = es.pj
    /\ db' = IF es.err = NoErr THEN CommitTx(db, es) ELSE db

\* C31: the first attempt of a Build on a seeded Builder issues no
\* GetLatestWorkspaceBuildByWorkspaceID, and no GetProvisionerJobByID but the
\* one for the import job when the job was seeded too; a build it commits has
\* the build number after the seeded build's and, by default, its state and
\* its version, and the active-job check has used the seeded job; and when
\* the seeded rows are the ones the transaction reads, the error, the build,
\* the job and the committed rows are those of the same Build unseeded.
C31_SeededBuildUsesSeed ==
    [][\A p \in Procs :
          (AttemptEnds(p) /\ Seeded(p) /\ faults' = faults)
          => /\ "GetLatestWorkspaceBuildByWorkspaceID" \notin Range(storelog'[p])
             /\ IsSome(builder[p].lastBuildJob)
                => /\ Count(storelog'[p], "GetProvisionerJobByID") <= 1
                   /\ builder'[p].lastBuildJob = builder[p].lastBuildJob
             /\ builder'[p].lastBuild = builder[p].lastBuild
             /\ result'[p].build # None
                => /\ Val(result'[p].build).BuildNumber
                         = Val(builder[p].lastBuild).BuildNumber + 1
                   /\ Val(result'[p].build).ProvisionerState
                         = Val(builder[p].lastBuild).ProvisionerState
                   /\ Val(result'[p].build).TemplateVersionID
                         = Val(builder[p].lastBuild).TemplateVersionID
                   /\ ~Active(ConvertProvisionerJobStatus(Val(builder'[p].lastBuildJob)))
             /\ SeedIsCurrent(builder[p], snap[p])
                => SameOutcome(p, buildTx(NewExec(Unseeded(builder[p]), snap[p], db,
                                                  authFn[p],
                                                  <<p, calls[p], retries[p] + 1>>,
                                                  NoFault)))]_vars

\* a Build on a Builder seeded with the last build and its job has succeeded
\* without reading either from the store
C31_Witness ==
    \E p \in Procs :
        /\ Succeeded(result[p])
        /\ calls[p] = 1 /\ retries[p] = 0
        /\ "GetLatestWorkspaceBuildByWorkspaceID" \notin Range(storelog[p])
        /\ Count(storelog[p], "GetProvisionerJobByID") = 1

\* the step opens a transaction of p
OpensTx(p) == pc[p] = "begin" /\ pc'[p] = "tx"

\* the attempt that ends in the step has ended in a serialization failure
\* of a statement inside buildTx, or in a failure of the commit, which leaves
\* the store as it was although buildTx returned no error
EndsInSerializationFailure(p) ==
    \/ outerErr'[p].cause = SerializationFailure
    \/ outerErr'[p] = NoErr /\ db' = db

\* C32: a caller that is inside Build eventually leaves it; a Build opens a
\* transaction only when it has opened fewer than five, it goes on to a
\* further one only after an attempt that ended in a serialization failure,
\* and it returns after an attempt that ended otherwise.
C32_BuildTerminates ==
    /\ \A p \in Procs : (pc[p] # "idle") ~> (pc[p] = "idle")
    /\ [][\A p \in Procs :
            /\ OpensTx(p) => retries[p] < 5
            /\ (AttemptEnds(p) /\ ~BuildReturns(p)) => EndsInSerializationFailure(p)
            /\ (AttemptEnds(p) /\ ~EndsInSerializationFailure(p)) => BuildReturns(p)
            /\ BuildReturns(p) => retries'[p] <= 5]_vars

\* a Build has returned after five transactions that all ended in a
\* serialization failure
C32_Witness ==
    \E p \in Procs :
        /\ Failed(result[p])
        /\ pc[p] = "idle"
        /\ retries[p] = 5
        /\ result[p].err.msg = "too many errors; last error"

\* C33: an attempt, not the fifth, that ends in a serialization failure is
\* followed by a further attempt and Build does not return, whether the
\* failure was answered to a store call inside buildTx, which wraps it in a
\* BuildError of status 500, or by the commit (buildTx has returned no error
\* and nothing is committed; a commit that fails otherwise makes Build
\* return that other error).
C33_WrappedSerializationFailureRetried ==
    [][\A p \in Procs :
          (/\ AttemptEnds(p)
           /\ retries[p] + 1 < 5
           /\ \/ /\ outerErr'[p].kind = "BuildError"
                 /\ outerErr'[p].status = StatusInternalServerError
                 /\ outerErr'[p].cause = SerializationFailure
              \/ /\ outerErr'[p] = NoErr /\ db' = db
                 /\ BuildReturns(p) => result'[p].err.cause = SerializationFailure)
          => /\ pc'[p] = "begin"
             /\ retries'[p] = retries[p] + 1
             /\ result'[p] = result[p]
             /\ ~result'[p].returned]_vars

\* a Build is about to retry after an attempt in which a store call answered
\* a serialization failure that buildTx wrapped in a BuildError
C33_Witness ==
    \E p \in Procs :
        /\ pc[p] = "begin"
        /\ retries[p] > 0
        /\ outerErr[p].kind = "BuildError"
        /\ outerErr[p].status = StatusInternalServerError
        /\ outerErr[p].cause = SerializationFailure

\* the rejections of buildTx in the order of the claim: whether the condition
\* holds of the Builder, the authFunc and the rows the Builder has resolved,
\* and the message reported for it
UnsupportedMessage == "Transition not supported."
WorkspaceDeniedMessage == "Resource not found"
StateDeniedMessage == "Only template managers may provide custom state"
LogLevelDeniedMessage ==
    "Workspace builds with a custom log level are restricted to template authors only."
ActiveMessage == "A workspace build is already active."

AuthorizationMessages ==
    {UnsupportedMessage, WorkspaceDeniedMessage, StateDeniedMessage, LogLevelDeniedMessage}

VersionMismatch(b) ==
    /\ IsSome(b.template) /\ IsSome(b.templateVersion)
    /\ Val(b.templateVersion).TemplateID # Some(Val(b.template).ID)

ImportUnusable(b) ==
    IsSome(b.templateVersionJob) /\ ResolvedImportStatus(b) # "succeeded"

LastJobActive(b) ==
    IsSome(b.lastBuildJob) /\ Active(ConvertProvisionerJobStatus(Val(b.lastBuildJob)))

\* the message of the first rejection that holds, "" when none holds
FirstRejection(b, auth) ==
    CASE auth # None /\ b.trans \notin SupportedTransitions -> UnsupportedMessage
      [] auth # None /\ b.trans \in SupportedTransitions
           /\ ~AuthAllows(auth, ActionFor(b.trans), "workspace") -> WorkspaceDeniedMessage
      [] auth # None /\ b.trans \in SupportedTransitions
           /\ AuthAllows(auth, ActionFor(b.trans), "workspace")
           /\ HasCustomState(b) /\ ~AuthAllows(auth, "update", "template") -> StateDeniedMessage
      [] auth # None /\ b.trans \in SupportedTransitions
           /\ AuthAllows(auth, ActionFor(b.trans), "workspace")
           /\ ~HasCustomState(b)
           /\ b.logLevel # "" /\ ~AuthAllows(auth, "update", "template") -> LogLevelDeniedMessage
      [] OTHER ->
           IF VersionMismatch(b) THEN MismatchMessage
           ELSE IF ImportUnusable(b) THEN ImportMessage(ResolvedImportStatus(b))
           ELSE IF LastJobActive(b) THEN ActiveMessage
           ELSE ""

\* how many of the rejection conditions hold
HoldingRejections(b, auth) ==
    Cardinality(
      {i \in 1..7 :
         CASE i = 1 -> auth # None /\ b.trans \notin SupportedTransitions
           [] i = 2 -> auth # None /\ ~AuthAllows(auth, ActionFor(b.trans), "workspace")
           [] i = 3 -> auth # None /\ HasCustomState(b) /\ ~AuthAllows(auth, "update", "template")
           [] i = 4 -> auth # None /\ b.logLevel # "" /\ ~AuthAllows(auth, "update", "template")
           [] i = 5 -> VersionMismatch(b)
           [] i = 6 -> ImportUnusable(b)
           [] OTHER -> LastJobActive(b)})

LastEntryValue(ps, name) ==
    ps[CHOOSE i \in 1..Len(ps) :
         /\ ps[i].Name = name
         /\ \A j \in 1..Len(ps) : ps[j].Name = name => j <= i].SourceValue

\* C35: after a Build with legacy overrides that succeeds in the first
\* attempt of a caller's first call, the workspace scope holds exactly one
\* legacy value for each overridden name, also when the list names the
\* parameter more than once: the value of the last entry for the name.
C35_OneLegacyValuePerOverriddenName ==
    [][\A p \in Procs :
          (/\ BuildReturns(p) /\ result'[p].err = NoErr
           /\ calls[p] = 1 /\ retries[p] = 0)
          => \A n \in OverriddenNames(builder[p]) :
                /\ Cardinality(LegacyValuesOf(db', n)) = 1
                /\ \A v \in LegacyValuesOf(db', n) :
                      v.SourceValue = LastEntryValue(builder[p].legacyParameterValues, n)]_vars

\* the names of the rich overrides of a Builder
RichNames(b) == {b.richParameterValues[i].Name : i \in 1..Len(b.richParameterValues)}

\* the names a schema declares
SchemaNames(schema) == {schema[i].Name : i \in 1..Len(schema)}

\* the rows hold one pair per parameter of the schema, in the order of the
\* schema, with the value of the first override of the name when there is one
OnePairPerParameter(schema, rows, b) ==
    /\ Len(rows) = Len(schema)
    /\ \A i \in 1..Len(schema) :
          /\ rows[i].Name = schema[i].Name
          /\ \A k \in 1..Len(b.richParameterValues) :
                (/\ b.richParameterValues[k].Name = schema[i].Name
                 /\ \A j \in 1..(k - 1) : b.richParameterValues[j].Name # schema[i].Name)
                => rows[i].Value = b.richParameterValues[k].Value

\* C36: the build parameters a successful Build has inserted are one
\* name/value pair per parameter of the schema of the build's
\* TemplateVersion, in schema order; an override with a name the schema does
\* not declare leaves no pair and no error, and of two overrides with one
\* name the first gives the value.
C36_BuildParametersFollowSchema ==
    [][\A p \in Procs :
          (BuildReturns(p) /\ result'[p].err = NoErr)
          => /\ Val(result'[p].build).ID \in DOMAIN db'.bparams
             /\ OnePairPerParameter(
                   TemplateVersionParameterRows(Val(result'[p].build).TemplateVersionID),
                   db'.bparams[Val(result'[p].build).ID], builder[p])]_vars

\* the legacy values the attempt of p that ends in the step has handed to the
\* resolver: the list the Builder holds after the attempt
HandedLegacy(p) == Val(builder'[p].lastParameterValues)

\* the rich parameters of the last build the attempt has resolved
HandedRich(p) ==
    IF Val(builder'[p].lastBuild).ID \in DOMAIN snap[p].bparams
    THEN snap[p].bparams[Val(builder'[p].lastBuild).ID]
    ELSE << >>

\* the schema parameter takes its value from the legacy values: it has no
\* override and the last build has no value for it
ResolvedFromLegacy(tvp, p) ==
    /\ tvp.LegacyVariableName # ""
    /\ ~IsSome(findNewBuildParameterValue(builder[p], tvp.Name))
    /\ ~IsSome(FirstNamed(HandedRich(p), tvp.Name))
    /\ LegacyValuesOf(snap[p], tvp.LegacyVariableName) # {}

SelectableVersions == {"v1", "v2", "v3"}
SelectableStates == {"s1", "s2"}

\* C38: the version selector and the state selector hold one choice, the one
\* of the last setter: on every Builder, VersionID(v) then ActiveVersion()
\* selects the active version of the template and the reverse order selects
\* v, State(s) then Orphan() yields the empty state and the reverse order
\* yields s; and a build that a Builder has committed carries the version and
\* the state its selectors choose.
C38_LastSetterWins ==
    \A p \in Procs :
        /\ \A v \in SelectableVersions :
              /\ ActiveVersion(VersionID(builder[p], v)) = ActiveVersion(builder[p])
              /\ VersionID(ActiveVersion(builder[p]), v) = VersionID(builder[p], v)
              /\ TemplateVersionIDOf(VersionID(ActiveVersion(builder[p]), v)) = v
              /\ IsSome(builder[p].template)
                 => TemplateVersionIDOf(ActiveVersion(VersionID(builder[p], v)))
                       = Val(builder[p].template).ActiveVersionID
        /\ \A s \in SelectableStates :
              /\ Orphan(State(builder[p], s)) = Orphan(builder[p])
              /\ State(Orphan(builder[p]), s) = State(builder[p], s)
              /\ StateOf(Orphan(State(builder[p], s))) = ""
              /\ StateOf(State(Orphan(builder[p]), s)) = s
        /\ Succeeded(result[p])
           => /\ builder[p].version.active
                 => /\ ~IsSome(builder[p].version.specific)
                    /\ Val(result[p].build).TemplateVersionID
                          = Val(builder[p].template).ActiveVersionID
              /\ IsSome(builder[p].version.specific)
                 => /\ ~builder[p].version.active
                    /\ Val(result[p].build).TemplateVersionID
                          = Val(builder[p].version.specific)
              /\ builder[p].state.orphan
                 => /\ ~IsSome(builder[p].state.explicit)
                    /\ Val(result[p].build).ProvisionerState = ""
              /\ IsSome(builder[p].state.explicit)
                 => /\ ~builder[p].state.orphan
                    /\ Val(result[p].build).ProvisionerState
                          = Val(builder[p].state.explicit)

\* a Builder made by VersionID(v3) and then ActiveVersion() has committed a
\* build of the active version v2
C38_Witness ==
    \E p \in Procs :
        /\ Succeeded(result[p])
        /\ builder[p].trans = "stop"
        /\ builder[p].version = ActiveVersion(VersionID(New("stop"), "v3")).version
        /\ Val(result[p].build).TemplateVersionID = "v2"

\* the ids of the rows the attempt of p that ends in the step inserts
AttemptIDs(p) == <<p, calls[p], retries[p] + 1>>

\* C39: Build returns either a build together with its job and no error, or
\* no build and no job together with an error, never a mix; the build and
\* the job it returns are the rows the attempt that ends with the return
\* has inserted and committed, not rows of an earlier, discarded attempt.
C39_ReturnsRowsOrError ==
    [][\A p \in Procs :
          BuildReturns(p) =>
            /\ result'[p].returned
            /\ \/ /\ result'[p].err = NoErr
                  /\ IsSome(result'[p].build) /\ IsSome(result'[p].job)
                  /\ Val(result'[p].build).ID = BuildIDOf(AttemptIDs(p))
                  /\ Val(result'[p].job).ID = JobIDOf(AttemptIDs(p))
                  /\ Val(result'[p].build).JobID = Val(result'[p].job).ID
                  /\ Val(result'[p].build) \in Range(db'.builds)
                  /\ Val(result'[p].build) \notin Range(db.builds)
                  /\ Val(result'[p].job).ID \in DOMAIN db'.jobs
                  /\ Val(result'[p].job).ID \notin DOMAIN db.jobs
                  /\ db'.jobs[Val(result'[p].job).ID] = Val(result'[p].job)
               \/ /\ result'[p].err # NoErr
                  /\ result'[p].build = None /\ result'[p].job = None
                  /\ db' = db]_vars

\* a Build has returned the rows of its third attempt, after two attempts
\* were discarded
C39_Witness ==
    \E p \in Procs :
        /\ Succeeded(result[p])
        /\ retries[p] = 2
        /\ Val(result[p].build).ID = BuildIDOf(<<p, calls[p], 3>>)
        /\ Val(result[p].job).ID = JobIDOf(<<p, calls[p], 3>>)
        /\ Val(result[p].job).ID \in DOMAIN db.jobs

====
